---- MODULE Spec2Model ----
(***************************************************************************)
(* A model of the Ozon seller bot (src/ozon_bot.py, src/config.py).        *)
(*                                                                         *)
(* Spec            the order monitor: the _monitor_loop threads polling    *)
(*                 the marketplace, and the telebot worker threads running *)
(*                 the start_monitoring / stop_monitoring handlers         *)
(*                 concurrently.                                           *)
(* SerialSpec      the same with the handlers run one at a time.           *)
(* LiveSpec, SerialLiveSpec   with weak fairness of every monitor thread.  *)
(* BotSpec         the handlers of the bot, each run whole on one update   *)
(*                 of any user, with the answers of the marketplace        *)
(*                 client drawn from what requests.post can do.            *)
(***************************************************************************)
EXTENDS Integers, Sequences, FiniteSets, TLC

(***************************************************************************)
(* Bounds of the model.                                                    *)
(***************************************************************************)
\* threading.Thread objects start_monitoring may create in one run
MaxThreads == 2
\* longest postings list one call of get_orders_for_packaging returns
MaxOrders == 2
\* telebot worker threads that run handlers at the same time: TeleBot is
\* built with its defaults, threaded with two workers
NumWorkers == 2
\* most products of one order
MaxProducts == 1
\* most words of a text given to draw_text_with_smart_fit
MaxWords == 5
\* widest image given to smart_crop_image on its own, in pixels
MaxImageWidth == 32
\* most characters of a barcode payload
MaxPayload == 12
\* most barcode images of one combined image
MaxBarcodes == 3

Threads == 1..MaxThreads
Workers == 1..NumWorkers

\* monitor_thread is None
None == 0

\* no stop_monitoring has cleared is_running since the last start
NotQuiet == [st |-> "none", by |-> None]

(***************************************************************************)
(* Marketplace data.  A posting of the list is identified by its           *)
(* posting_number; NoNumber is a posting dict without a posting_number,    *)
(* Malformed an element that is no dict, on which order.get raises.  The   *)
(* elements of a postings list are drawn one by one, as the scan of        *)
(* check_new_orders reads them.                                            *)
(***************************************************************************)
Postings == {"p1", "p2"}
NoNumber == "no_number"
Malformed == "malformed"
OrderVals == Postings \cup {NoNumber, Malformed}

\* what get_orders_for_packaging hands to check_new_orders: {"error": ...},
\* an exception other than RequestException (or a result that is no dict),
\* or a JSON body whose result.postings has n elements
ApiResults ==
    {[kind |-> "error", n |-> 0], [kind |-> "raises", n |-> 0]}
    \cup {[kind |-> "ok", n |-> n] : n \in 0..MaxOrders}

Range(s) == {s[i] : i \in 1..Len(s)}

(***************************************************************************)
(* Telegram users and the configuration.  A user id is an integer; the     *)
(* configured ADMIN_CHAT_ID and the second entry of admin_ids are strings, *)
(* here sequences of characters.                                           *)
(***************************************************************************)
Users == {7, 111, 669994046}

\* os.getenv("ADMIN_CHAT_ID", ""): the empty default, or what the
\* environment holds
AdminChatIds == {<<>>, <<"1", "1", "1">>, <<"0", "7">>}

\* the second entry of admin_ids
ExtraAdmin == <<"6", "6", "9", "9", "9", "4", "0", "4", "6">>

Digits == <<"0", "1", "2", "3", "4", "5", "6", "7", "8", "9">>

\* str(user_id) of a non-negative integer: its decimal digits
RECURSIVE Str(_)
Str(n) ==
    IF n < 10 THEN <<Digits[n + 1]>>
    ELSE Append(Str(n \div 10), Digits[(n % 10) + 1])

(***************************************************************************)
(* Updates.  The data of a callback query is the string of a button,       *)
(* here the sequence of its parts between the "_" characters: "ship_P1"    *)
(* is <<"ship", "P1">>.                                                    *)
(***************************************************************************)
Commands == {"start", "help", "orders", "labels", "monitor"}

CallbackData ==
    { <<"main", "menu">>, <<"packaging", "orders">>, <<"delivery", "orders">>,
      <<"labels">>, <<"notifications">>, <<"stats">>, <<"all", "products">>,
      <<"products", "page", "1">>, <<"products", "packaging">>,
      <<"products", "delivery">>, <<"order", "P1">>, <<"ship", "P1">>,
      <<"label", "P1">>, <<"download", "label", "P1">>,
      <<"download", "barcode", "P1">>, <<"products", "P1">>,
      <<"barcodes", "P1">>, <<"combined", "P1">>, <<"product", "5", "P1">>,
      <<"product", "5">>, <<"product", "detail", "5">>,
      <<"item", "detail", "5">>, <<"item", "detail", "x">>,
      <<"edit", "stock", "5">>, <<"update", "stock", "5", "3">>,
      <<"update", "stock", "5">>, <<"barcode", "5">>,
      <<"start", "monitoring">>, <<"stop", "monitoring">>,
      <<"monitoring", "status">>, <<"noop">> }

\* the content of a label file: bytes that are no PDF, a PDF without pages,
\* or a PDF whose first page is the label
Pdfs == {"unparseable", "zero_pages", "label"}
\* no PDF went into the label pipeline
NoPdf == "none"

NoUpdate == [user |-> 0, kind |-> "none", data |-> <<>>]

\* data == s, for the string s whose parts are p
Eq(data, p) == data = p

\* data.startswith(s), for the string s whose parts are p followed by "_"
StartsWith(data, p) ==
    /\ Len(data) > Len(p)
    /\ SubSeq(data, 1, Len(p)) = p

\* str.isdigit of one part
IsDigit(part) == part \in {"1", "3", "5"}

VARIABLES
    \* OrderMonitor fields
    is_running,        \* self.is_running
    monitor_thread,    \* self.monitor_thread: None or a thread
    processed_orders,  \* self.processed_orders
    \* the _monitor_loop threads
    tpc,               \* where each thread is
    orders,            \* check_new_orders: how many postings are left to scan
    posting_number,    \* check_new_orders: posting_number of the loop's order
    new_orders,        \* check_new_orders: new_orders
    result,            \* how the last API call of the thread ended
    \* OzonBot.run and the telebot workers
    polling,           \* bot.polling has been entered
    hpc,               \* where each worker is
    hjoin,             \* the thread a worker's join waits for
    \* what has been observed so far
    renotified,        \* a posting number already in processed_orders was
                       \* put into new_orders again
    delivered,         \* posting numbers covered by a delivered notification
    multi,             \* two monitor threads have been alive at once
    quiet,             \* "cleared" by h: the stop run by worker h was the
                       \*    last to clear is_running, no start has run since
                       \* "returned": that stop has returned, no start since
    lateSend,          \* a notification was delivered while quiet = "returned"
    passed,            \* how many orders send_new_orders_notification was
                       \* given, over all its calls
    \* the configuration and the handling of the last update
    ADMIN_CHAT_ID,     \* Config.ADMIN_CHAT_ID
    update,            \* the update handled last: who sent it, what it is
    granted,           \* what check_admin_access answered for it
    calls,             \* the collaborator calls its handler made, with results
    sent,              \* the messages its handler sent to the chat
    raised,            \* the exception that ended its handler, "" if none
    pdf,               \* the PDF its handler gave to generate_smart_label
    \* the image and text functions, run on their own
    arg,               \* the arguments of the call
    out                \* what the call has returned or drawn

monVars == <<is_running, monitor_thread, processed_orders>>
thrVars == <<tpc, orders, posting_number, new_orders, result>>
botVars == <<polling, hpc, hjoin>>
obsVars == <<renotified, delivered, multi, quiet, lateSend, passed>>
hdlVars == <<ADMIN_CHAT_ID, update, granted, calls, sent, raised, pdf>>
funVars == <<arg, out>>
vars == <<monVars, thrVars, botVars, obsVars, hdlVars, funVars>>

\* no function is being run on its own
NoArg == [fn |-> "none"]
NoOut == [fn |-> "none"]

Alive(t) == tpc[t] \notin {"unborn", "dead"}
AliveThreads == {t \in Threads : Alive(t)}
Unborn == {t \in Threads : tpc[t] = "unborn"}

(***************************************************************************)
(* Config, OrderMonitor.__init__ and OzonBot.__init__, with the value the   *)
(* environment gives to ADMIN_CHAT_ID                                      *)
(***************************************************************************)
Construct(admin_chat_id) ==
    /\ is_running = FALSE
    /\ monitor_thread = None
    /\ processed_orders = {}
    /\ tpc = [t \in Threads |-> "unborn"]
    /\ orders = [t \in Threads |-> 0]
    /\ posting_number = [t \in Threads |-> NoNumber]
    /\ new_orders = [t \in Threads |-> <<>>]
    /\ result = [t \in Threads |-> "none"]
    /\ polling = FALSE
    /\ hpc = [h \in Workers |-> "idle"]
    /\ hjoin = [h \in Workers |-> None]
    /\ renotified = FALSE
    /\ delivered = {}
    /\ multi = FALSE
    /\ quiet = NotQuiet
    /\ lateSend = FALSE
    /\ passed = 0
    /\ ADMIN_CHAT_ID = admin_chat_id
    /\ update = NoUpdate
    /\ granted = FALSE
    /\ calls = <<>>
    /\ sent = <<>>
    /\ raised = ""
    /\ pdf = NoPdf

\* the bot as configured by default: ADMIN_CHAT_ID is not set
Init == Construct(<<>>) /\ arg = NoArg /\ out = NoOut

(***************************************************************************)
(* OrderMonitor.start_monitoring, lines 399-402: set the flag, create the  *)
(* thread, keep it in monitor_thread and start it.                         *)
(***************************************************************************)
SpawnMonitor(t) ==
    /\ is_running' = TRUE
    /\ monitor_thread' = t
    /\ tpc' = [tpc EXCEPT ![t] = "while"]
    /\ multi' = (multi \/ AliveThreads # {})
    /\ quiet' = NotQuiet

(***************************************************************************)
(* OzonBot.run: the configuration is valid; the monitor is started on the  *)
(* main thread and bot.polling starts the workers.                         *)
(***************************************************************************)
Run ==
    /\ ~polling
    /\ polling' = TRUE
    /\ \E t \in Unborn :
          /\ \A u \in Unborn : t <= u
          /\ SpawnMonitor(t)
    /\ UNCHANGED <<hdlVars, funVars>>
    /\ UNCHANGED <<processed_orders, orders, posting_number, new_orders,
                   result, hpc, hjoin, renotified, delivered,
                   lateSend, passed>>

(***************************************************************************)
(* _monitor_loop                                                           *)
(***************************************************************************)
\* what "while self.is_running" does: another turn, or the end of the thread
LoopTarget(running) == IF running THEN "poll" ELSE "dead"

\* the end of time.sleep (line 417), if the thread has polled, and the test
\* of "while self.is_running"
LoopTest(t) ==
    /\ tpc[t] = "while"
    /\ tpc' = [tpc EXCEPT ![t] = LoopTarget(is_running)]
    /\ UNCHANGED <<hdlVars, funVars>>
    /\ UNCHANGED <<monVars, orders, posting_number, new_orders, result,
                   botVars, obsVars>>

\* line 440 without the test of processed_orders
IsNewOrderNoDedup(o, processed) == o \in Postings

\* line 440: the posting has a posting_number that is not in processed_orders
IsNewOrder(o, processed) == o \in Postings /\ o \notin processed

\* a failed call of the API ends the thread instead of the poll
PollTargetAbort(r) ==
    IF r.kind # "ok" THEN "dead" ELSE IF r.n = 0 THEN "while" ELSE "scan"

\* where a poll goes after the call of the API: an error result (line 427),
\* an exception (line 449) and an empty list (line 432) end the poll, and
\* _monitor_loop goes on to time.sleep and the next test of is_running
PollTarget(r) ==
    IF r.kind # "ok" \/ r.n = 0 THEN "while" ELSE "scan"

\* check_new_orders up to the scan: the call of the API, the error test and
\* the test for an empty list
Poll(t) ==
    /\ tpc[t] = "poll"
    /\ \E r \in ApiResults :
          /\ tpc' = [tpc EXCEPT ![t] = PollTarget(r)]
          /\ IF r.kind # "ok" \/ r.n = 0
             THEN /\ result' = [result EXCEPT ![t] = r.kind]
                  /\ UNCHANGED <<orders, new_orders>>
             ELSE /\ result' = [result EXCEPT ![t] = "ok"]
                  /\ orders' = [orders EXCEPT ![t] = r.n]
                  /\ new_orders' = [new_orders EXCEPT ![t] = <<>>]
    /\ UNCHANGED <<hdlVars, funVars>>
    /\ UNCHANGED <<monVars, posting_number, botVars, obsVars>>

\* one turn of "for order in orders" up to the test of line 440
ScanOrder(t) ==
    /\ tpc[t] = "scan"
    /\ orders[t] > 0
    /\ \E order \in OrderVals :
          IF order = Malformed
          THEN \* order.get raises: the except of line 449 ends the poll
               /\ tpc' = [tpc EXCEPT ![t] = "while"]
               /\ orders' = [orders EXCEPT ![t] = 0]
               /\ new_orders' = [new_orders EXCEPT ![t] = <<>>]
               /\ posting_number' = [posting_number EXCEPT ![t] = NoNumber]
          ELSE /\ posting_number' = [posting_number EXCEPT ![t] = order]
               /\ IF IsNewOrder(order, processed_orders)
                  THEN /\ tpc' = [tpc EXCEPT ![t] = "add"]
                       /\ UNCHANGED <<orders, new_orders>>
                  ELSE /\ orders' = [orders EXCEPT ![t] = @ - 1]
                       /\ UNCHANGED <<tpc, new_orders>>
    /\ UNCHANGED <<hdlVars, funVars>>
    /\ UNCHANGED <<monVars, result, botVars, obsVars>>

\* lines 441-442
Add(t) ==
    /\ tpc[t] = "add"
    /\ LET p == posting_number[t] IN
          /\ new_orders' = [new_orders EXCEPT ![t] = Append(@, p)]
          /\ processed_orders' = processed_orders \cup {p}
          /\ renotified' = (renotified \/ p \in processed_orders)
    /\ orders' = [orders EXCEPT ![t] = @ - 1]
    /\ tpc' = [tpc EXCEPT ![t] = "scan"]
    /\ UNCHANGED <<hdlVars, funVars>>
    /\ UNCHANGED <<is_running, monitor_thread, posting_number, result,
                   botVars, delivered, multi, quiet, lateSend, passed>>

\* the end of the loop and the test of line 444
ScanEnd(t) ==
    /\ tpc[t] = "scan"
    /\ orders[t] = 0
    /\ tpc' = [tpc EXCEPT ![t] =
                  IF new_orders[t] # <<>> THEN "notify" ELSE "while"]
    /\ posting_number' = [posting_number EXCEPT ![t] = NoNumber]
    /\ UNCHANGED <<hdlVars, funVars>>
    /\ UNCHANGED <<monVars, orders, new_orders, result, botVars, obsVars>>

\* send_new_orders_notification: bot.send_message delivers the text, or it
\* raises and the except of line 477 logs the error
Notify(t) ==
    /\ tpc[t] = "notify"
    /\ \E ok \in BOOLEAN :
          /\ delivered' = IF ok THEN delivered \cup Range(new_orders[t])
                                  ELSE delivered
          /\ lateSend' = (lateSend \/ (ok /\ quiet.st = "returned"))
    /\ passed' = passed + Len(new_orders[t])
    /\ new_orders' = [new_orders EXCEPT ![t] = <<>>]
    /\ tpc' = [tpc EXCEPT ![t] = "while"]
    /\ UNCHANGED <<hdlVars, funVars>>
    /\ UNCHANGED <<monVars, orders, posting_number, result, botVars,
                   renotified, multi, quiet>>

ThreadStep(t) ==
    \/ LoopTest(t)
    \/ Poll(t)
    \/ ScanOrder(t)
    \/ Add(t)
    \/ ScanEnd(t)
    \/ Notify(t)

(***************************************************************************)
(* The telebot workers.  Each runs one handler at a time; here the update  *)
(* is a press of the start_monitoring or the stop_monitoring button by the *)
(* operator.                                                               *)
(***************************************************************************)
Starting == {h \in Workers : hpc[h] \in {"start_outer", "start_inner", "start_set"}}

\* callback_handler, lines 738-741.  A start is taken up only while a thread
\* object is left for it to create.
Receive(h) ==
    /\ polling
    /\ hpc[h] = "idle"
    /\ \/ /\ Cardinality(Starting) < Cardinality(Unborn)
          /\ hpc' = [hpc EXCEPT ![h] = "start_outer"]
          /\ quiet' = NotQuiet
       \/ /\ hpc' = [hpc EXCEPT ![h] = "stop_outer"]
          /\ quiet' = quiet
    /\ UNCHANGED <<hdlVars, funVars>>
    /\ UNCHANGED <<monVars, thrVars, polling, hjoin, renotified, delivered, multi, lateSend, passed>>

\* OzonBot.start_monitoring, line 3643
StartOuter(h) ==
    /\ hpc[h] = "start_outer"
    /\ hpc' = [hpc EXCEPT ![h] = IF is_running THEN "idle" ELSE "start_inner"]
    /\ quiet' = NotQuiet
    /\ UNCHANGED <<hdlVars, funVars>>
    /\ UNCHANGED <<monVars, thrVars, polling, hjoin, renotified, delivered, multi, lateSend, passed>>

\* OrderMonitor.start_monitoring, line 396
StartInner(h) ==
    /\ hpc[h] = "start_inner"
    /\ hpc' = [hpc EXCEPT ![h] = IF is_running THEN "idle" ELSE "start_set"]
    /\ quiet' = NotQuiet
    /\ UNCHANGED <<hdlVars, funVars>>
    /\ UNCHANGED <<monVars, thrVars, polling, hjoin, renotified, delivered, multi, lateSend, passed>>

\* OrderMonitor.start_monitoring, lines 399-402, and the reply
StartSet(h) ==
    /\ hpc[h] = "start_set"
    /\ \E t \in Unborn :
          /\ \A u \in Unborn : t <= u
          /\ SpawnMonitor(t)
    /\ hpc' = [hpc EXCEPT ![h] = "idle"]
    /\ UNCHANGED <<hdlVars, funVars>>
    /\ UNCHANGED <<processed_orders, orders, posting_number, new_orders,
                   result, polling, hjoin, renotified, delivered,
                   lateSend, passed>>

\* OzonBot.stop_monitoring, line 3661
StopOuter(h) ==
    /\ hpc[h] = "stop_outer"
    /\ hpc' = [hpc EXCEPT ![h] = IF is_running THEN "stop_clear" ELSE "idle"]
    /\ UNCHANGED <<hdlVars, funVars>>
    /\ UNCHANGED <<monVars, thrVars, polling, hjoin, obsVars>>

\* OrderMonitor.stop_monitoring, line 407
StopClear(h) ==
    /\ hpc[h] = "stop_clear"
    /\ is_running' = FALSE
    /\ hpc' = [hpc EXCEPT ![h] = "stop_read"]
    /\ quiet' = [st |-> "cleared", by |-> h]
    /\ UNCHANGED <<hdlVars, funVars>>
    /\ UNCHANGED <<monitor_thread, processed_orders, thrVars, polling, hjoin,
                   renotified, delivered, multi, lateSend, passed>>

\* the thread stop_monitoring waits for: self.monitor_thread
JoinTarget == monitor_thread

\* OrderMonitor.stop_monitoring, lines 408-409: the read of monitor_thread
StopRead(h) ==
    /\ hpc[h] = "stop_read"
    /\ IF JoinTarget = None
       THEN /\ hpc' = [hpc EXCEPT ![h] = "idle"]
            /\ hjoin' = hjoin
            /\ quiet' = IF quiet = [st |-> "cleared", by |-> h]
                        THEN [st |-> "returned", by |-> h] ELSE quiet
       ELSE /\ hpc' = [hpc EXCEPT ![h] = "stop_join"]
            /\ hjoin' = [hjoin EXCEPT ![h] = JoinTarget]
            /\ quiet' = quiet
    /\ UNCHANGED <<hdlVars, funVars>>
    /\ UNCHANGED <<monVars, thrVars, polling, renotified, delivered, multi, lateSend, passed>>

\* monitor_thread.join() returns once the thread has ended; then the reply
StopJoin(h) ==
    /\ hpc[h] = "stop_join"
    /\ tpc[hjoin[h]] = "dead"
    /\ hpc' = [hpc EXCEPT ![h] = "idle"]
    /\ hjoin' = [hjoin EXCEPT ![h] = None]
    /\ quiet' = IF quiet = [st |-> "cleared", by |-> h]
                        THEN [st |-> "returned", by |-> h] ELSE quiet
    /\ UNCHANGED <<hdlVars, funVars>>
    /\ UNCHANGED <<monVars, thrVars, polling, renotified, delivered, multi, lateSend, passed>>

WorkerStep(h) ==
    \/ Receive(h)
    \/ StartOuter(h)
    \/ StartInner(h)
    \/ StartSet(h)
    \/ StopOuter(h)
    \/ StopClear(h)
    \/ StopRead(h)
    \/ StopJoin(h)

(***************************************************************************)
(* OzonAPI: results.  A result is the dict a method returns, or None:      *)
(*   tag  "file"  a dict with file_content                                 *)
(*        "json"  the decoded JSON body; err: it has the key "error";      *)
(*                n: the length of the list it carries                     *)
(*        "error" {"error": str(e)}                                        *)
(*        "None"  the method fell off its end                              *)
(***************************************************************************)
Res(tag, err, n) == [tag |-> tag, err |-> err, n |-> n]
FileDict == Res("file", FALSE, 0)
ErrorDict == Res("error", TRUE, 0)
NoneResult == Res("None", FALSE, 0)

\* the outcomes of requests.post: it raises a RequestException, or there is
\* a response with a status code, a content type and, if JSON, a body
Statuses == {200, 204, 404, 500}
ContentTypes == {"application/pdf", "image/png", "application/json", "text/html"}
HttpOutcomes ==
    {[raises |-> TRUE, status |-> 0, ctype |-> "", err |-> FALSE]}
    \cup {[raises |-> FALSE, status |-> st, ctype |-> c, err |-> e] :
             st \in Statuses, c \in ContentTypes, e \in BOOLEAN}

\* response.raise_for_status() raises an HTTPError
RaiseForStatus(status) == status >= 400 /\ status < 600

get_package_label(http) ==
    IF http.raises THEN ErrorDict
    ELSE IF http.status = 200
         THEN IF http.ctype = "application/pdf" THEN FileDict
              ELSE IF http.ctype = "application/json"
                   THEN Res("json", http.err, 0)
                   ELSE ErrorDict
         ELSE IF RaiseForStatus(http.status) THEN ErrorDict
              ELSE NoneResult

get_barcode(http) ==
    IF http.raises THEN ErrorDict
    ELSE IF http.status = 200
         THEN IF http.ctype = "image/png" THEN FileDict
              ELSE IF http.ctype = "application/json"
                   THEN Res("json", http.err, 0)
                   ELSE ErrorDict
         ELSE IF RaiseForStatus(http.status) THEN ErrorDict
              ELSE NoneResult

\* what get_orders_for_packaging and get_orders_awaiting_deliver return:
\* an error result, or a body with n postings
ListResults == {ErrorDict} \cup {Res("json", FALSE, n) : n \in 0..MaxOrders}

\* what get_order_details returns: an error result, or an order with n
\* products
DetailResults == {ErrorDict} \cup {Res("json", FALSE, n) : n \in 0..MaxProducts}

\* the status of a posting
OrderStatuses ==
    {"awaiting_packaging", "awaiting_deliver", "delivering", "cancelled"}

\* an order with n products, skus of them with a SKU, in a status
Order(n, skus, status) ==
    [tag |-> "json", err |-> FALSE, n |-> n, skus |-> skus, status |-> status]

\* what get_order_details returns to show_order_details and ship_order
OrderResults ==
    {ErrorDict} \cup
    UNION {{Order(n, skus, status) :
               skus \in 0..n, status \in OrderStatuses} :
           n \in 0..MaxProducts}

\* what the other calls return
PlainResults == {ErrorDict, Res("json", FALSE, 0)}

\* "error" in result, for a dict
HasError(r) == r.tag = "error" \/ (r.tag = "json" /\ r.err)

(***************************************************************************)
(* OzonBot: access                                                         *)
(***************************************************************************)
is_admin(user_id) ==
    Str(user_id) \in {ADMIN_CHAT_ID, ExtraAdmin}

\* every user passes
check_admin_accessOpen(user_id) == TRUE

check_admin_access(user_id) == is_admin(user_id)

(***************************************************************************)
(* What a handler does with one update: the collaborator calls it makes,   *)
(* the messages it sends, each with or without a main_menu button, and the *)
(* exception that ends it, if any.                                         *)
(***************************************************************************)
Call(fn, res) == [fn |-> fn, res |-> res]
Msg(text, menu) ==
    [text |-> text, menu |-> menu, nums |-> <<>>, buttons |-> {}]
\* a message with a keyboard: the main_menu button and the buttons given,
\* each named by the callback data it carries without the posting number
Keyboard(text, buttons) ==
    [text |-> text, menu |-> TRUE, nums |-> <<>>, buttons |-> buttons]
Outcome(c, s, r) == [calls |-> c, sent |-> s, raised |-> r]

\* send_access_denied
AccessDenied == Msg("access_denied", FALSE)
\* answer_callback_query(call.id, ..., show_alert=True)
AccessDeniedAlert == Msg("access_denied_alert", FALSE)

DeniedCommand == Outcome(<<>>, <<AccessDenied>>, "")
DeniedCallback == Outcome(<<>>, <<AccessDeniedAlert, AccessDenied>>, "")

(***************************************************************************)
(* callback_handler, lines 655-743: the handler the chain of tests picks   *)
(* for the data, in the order of the source.  "none": no branch acts.      *)
(***************************************************************************)
Route(data) ==
    IF Eq(data, <<"main", "menu">>) THEN "show_main_menu"
    ELSE IF Eq(data, <<"packaging", "orders">>) THEN "show_packaging_orders"
    ELSE IF Eq(data, <<"delivery", "orders">>) THEN "show_delivery_orders"
    ELSE IF Eq(data, <<"labels">>) THEN "show_labels_menu"
    ELSE IF Eq(data, <<"notifications">>) THEN "show_notifications_menu"
    ELSE IF Eq(data, <<"stats">>) THEN "show_stats"
    ELSE IF Eq(data, <<"all", "products">>) THEN "show_all_products_menu"
    ELSE IF StartsWith(data, <<"products", "page">>) THEN "show_all_products_menu"
    ELSE IF Eq(data, <<"products", "packaging">>) THEN "show_products_by_status"
    ELSE IF Eq(data, <<"products", "delivery">>) THEN "show_products_by_status"
    ELSE IF StartsWith(data, <<"order">>) THEN "show_order_details"
    ELSE IF StartsWith(data, <<"ship">>) THEN "ship_order"
    ELSE IF StartsWith(data, <<"label">>) THEN "show_order_details"
    ELSE IF StartsWith(data, <<"download", "label">>) THEN "get_single_label"
    ELSE IF StartsWith(data, <<"download", "barcode">>) THEN "get_single_barcode"
    ELSE IF StartsWith(data, <<"products">>) THEN "show_order_products"
    ELSE IF StartsWith(data, <<"barcodes">>) THEN "get_order_barcodes"
    ELSE IF StartsWith(data, <<"combined">>) THEN "get_combined_barcode_label"
    ELSE IF StartsWith(data, <<"product">>)
         THEN IF Len(data) >= 3 THEN "show_product_from_order" ELSE "none"
    ELSE IF StartsWith(data, <<"product", "detail">>)
         THEN IF Len(data) = 3 /\ IsDigit(data[3])
              THEN "show_product_details" ELSE "invalid_product_id"
    ELSE IF StartsWith(data, <<"item", "detail">>)
         THEN IF Len(data) = 3 /\ IsDigit(data[3])
              THEN "show_product_details" ELSE "invalid_product_id"
    ELSE IF StartsWith(data, <<"edit", "stock">>) THEN "show_edit_stock_menu"
    ELSE IF StartsWith(data, <<"update", "stock">>)
         THEN IF Len(data) >= 4 THEN "update_product_stock" ELSE "none"
    ELSE IF StartsWith(data, <<"barcode">>) THEN "get_product_barcode_by_id"
    ELSE IF Eq(data, <<"start", "monitoring">>) THEN "start_monitoring"
    ELSE IF Eq(data, <<"stop", "monitoring">>) THEN "stop_monitoring"
    ELSE IF Eq(data, <<"monitoring", "status">>) THEN "show_monitoring_status"
    ELSE "none"

(***************************************************************************)
(* Handlers as functions of what their collaborators answer.               *)
(***************************************************************************)
\* generate_smart_label, as far as its caller sees it: fitz.open raises on
\* bytes that are no PDF and the except of line 3453 returns None; a PDF
\* without pages returns None at line 3134; on a label the image is
\* returned if the rest of the pipeline renders it, and None if a step raises
generate_smart_labelBlind(pdf_content, renders) == "image"

generate_smart_label(pdf_content, renders) ==
    IF pdf_content = "unparseable" THEN "None"
    ELSE IF pdf_content = "zero_pages" THEN "None"
    ELSE IF renders THEN "image" ELSE "None"

\* the call of generate_smart_label, as the handlers record it
SmartLabelCall(smart_label) ==
    Call("generate_smart_label",
         Res(IF smart_label THEN "image" ELSE "None", FALSE, 0))

\* On a result that is None, "error" in result raises TypeError.
get_single_label(http, order_result, smart_label) ==
    LET label == get_package_label(http)
        first == <<Call("get_package_label", label)>>
        both == Append(first, Call("get_order_details", order_result))
        loading == Msg("generating_label", FALSE)
    IN  IF label.tag = "None"
        THEN Outcome(first, <<loading>>, "TypeError")
        ELSE IF HasError(label)
        THEN Outcome(first, <<loading, Msg("label_error", TRUE)>>, "")
        ELSE IF label.tag = "file"
        THEN \* line 1248: products is bound only if the order has products
             IF ~HasError(order_result) /\ order_result.n > 0
             THEN Outcome(Append(both, SmartLabelCall(smart_label)),
                          <<loading,
                            Msg(IF smart_label THEN "smart_label_document"
                                               ELSE "pdf_label_document", FALSE),
                            Msg("label_sent", TRUE)>>, "")
             ELSE Outcome(both, <<loading>>, "UnboundLocalError")
        ELSE Outcome(first, <<loading, Msg("no_label", TRUE)>>, "")

get_single_barcode(http) ==
    LET barcode == get_barcode(http)
        only == <<Call("get_barcode", barcode)>>
        waiting == Msg("generating_barcode", FALSE)
    IN  IF barcode.tag = "None"
        THEN Outcome(only, <<waiting>>, "TypeError")
        ELSE IF HasError(barcode)
        THEN Outcome(only, <<waiting, Msg("barcode_error", TRUE)>>, "")
        ELSE IF barcode.tag = "file"
        THEN Outcome(only,
                     <<waiting, Msg("barcode_document", FALSE),
                       Msg("barcode_sent", TRUE)>>, "")
        ELSE Outcome(only, <<waiting, Msg("no_barcode", TRUE)>>, "")

\* get_combined_barcode_label: every step is inside the try of line 2146,
\* whose except sends the error with the main_menu button
get_combined_barcode_label(order_result, http, smart_label, has_sku, detailed_result, combined_image) ==
    LET creating == Msg("creating_combined", FALSE)
        c1 == <<Call("get_order_details", order_result)>>
        label_result == get_package_label(http)
        c2 == Append(c1, Call("get_package_label", label_result))
        c3 == Append(c2, SmartLabelCall(smart_label))
        c4 == Append(c3, Call("product_info_list", detailed_result))
    IN  IF HasError(order_result)
        THEN Outcome(c1, <<creating, Msg("combined_order_error", TRUE)>>, "")
        ELSE IF order_result.n = 0
        THEN Outcome(c1, <<creating, Msg("combined_no_products", TRUE)>>, "")
        ELSE IF label_result.tag = "None"
        THEN Outcome(c2, <<creating, Msg("combined_exception", TRUE)>>, "")
        ELSE IF HasError(label_result) \/ label_result.tag # "file"
        THEN Outcome(c2, <<creating, Msg("combined_no_label", TRUE)>>, "")
        ELSE IF ~smart_label
        THEN Outcome(c3, <<creating, Msg("combined_no_smart_label", TRUE)>>, "")
        ELSE IF ~has_sku
        THEN Outcome(c3, <<creating, Msg("combined_no_sku", TRUE)>>, "")
        ELSE IF HasError(detailed_result)
        THEN Outcome(c4, <<creating, Msg("combined_exception", TRUE)>>, "")
        ELSE IF combined_image
        THEN Outcome(c4, <<creating, Msg("combined_document", FALSE),
                           Msg("combined_sent", TRUE)>>, "")
        ELSE Outcome(c4, <<creating, Msg("combined_failed", TRUE)>>, "")

\* the PDF a handler with outcome o gave to generate_smart_label, if it
\* got as far as the call
PipelinePdf(o, pdf_content) ==
    IF \E i \in 1..Len(o.calls) : o.calls[i].fn = "generate_smart_label"
    THEN pdf_content ELSE NoPdf

\* the text of show_stats carries the two counts and the number of
\* processed orders
show_stats(packaging_result, delivery_result, processed_count) ==
    LET packaging_count == IF ~HasError(packaging_result)
                           THEN packaging_result.n ELSE 0
        delivery_count == IF ~HasError(delivery_result)
                          THEN delivery_result.n ELSE 0
    IN  Outcome(<<Call("get_orders_for_packaging", packaging_result),
                  Call("get_orders_awaiting_deliver", delivery_result)>>,
                <<[text |-> "stats", menu |-> TRUE,
                   nums |-> <<packaging_count, delivery_count,
                              processed_count>>,
                   buttons |-> {}]>>,
                "")

\* show_order_details, lines 940-1098.  detailed_products is bound at line
\* 985, inside the try of the request for product information, which is
\* sent only for a list of SKUs that is not empty; line 1008 reads it for
\* every order with products.
show_order_details(order_result, detailed_result, has_images) ==
    LET loading == Msg("loading_order", FALSE)
        c1 == <<Call("get_order_details", order_result)>>
        c2 == Append(c1, Call("product_info_list", detailed_result))
        details ==
            Keyboard("order_details",
                     (IF order_result.status = "awaiting_packaging"
                      THEN {"ship"}
                      ELSE IF order_result.status = "awaiting_deliver"
                      THEN {"download_label"}
                      ELSE {})
                     \cup {"products", "barcodes", "combined"})
    IN  IF HasError(order_result)
        THEN Outcome(c1, <<loading, Msg("order_error", TRUE)>>, "")
        ELSE IF order_result.n = 0
        THEN Outcome(c1, <<loading, details>>, "")
        ELSE IF order_result.skus = 0
        THEN Outcome(c1, <<loading>>, "UnboundLocalError")
        ELSE IF HasError(detailed_result)
        THEN Outcome(c2, <<loading>>, "UnboundLocalError")
        ELSE IF has_images
        THEN Outcome(c2, <<loading, Msg("media_group", FALSE), details>>, "")
        ELSE Outcome(c2, <<loading, details>>, "")

\* ships whatever the detail fetch gave, and always reports success
ship_orderUnchecked(order_before, ship_result, order_after) ==
    Outcome(<<Call("get_order_details", order_before),
              Call("ship_order", ship_result)>>,
            <<Msg("shipping", FALSE),
              Keyboard("ship_success", {"download_label"})>>, "")

\* ship_order, lines 1100-1211: the detail fetch, the ship call, and the
\* second detail fetch for the message of success
ship_order(order_before, ship_result, order_after) ==
    LET processing == Msg("shipping", FALSE)
        c1 == <<Call("get_order_details", order_before)>>
        c2 == Append(c1, Call("ship_order", ship_result))
        c3 == Append(c2, Call("get_order_details", order_after))
    IN  IF HasError(order_before)
        THEN Outcome(c1, <<processing, Msg("order_error", TRUE)>>, "")
        ELSE IF HasError(ship_result)
        THEN Outcome(c2, <<processing, Msg("ship_error", TRUE)>>, "")
        ELSE IF HasError(order_after)
        THEN Outcome(c3, <<processing,
                           Keyboard("ship_success", {"download_label"})>>, "")
        ELSE Outcome(c3, <<processing,
                           Keyboard("ship_success",
                                    {"download_label", "products",
                                     "barcodes", "combined"})>>, "")

\* The other handlers, in outline: the methods of OzonAPI a handler calls
\* and the request for product information it sends first, in its order.
CollaboratorCalls(h) ==
    CASE h = "show_packaging_orders" -> <<"get_orders_for_packaging">>
      [] h = "show_delivery_orders" -> <<"get_orders_awaiting_deliver">>
      [] h = "show_all_products_menu" -> <<"get_all_products">>
      [] h = "show_products_by_status" -> <<"get_orders_for_packaging">>
      [] h = "show_order_products" -> <<"get_order_details">>
      [] h = "get_order_barcodes" -> <<"get_order_details">>
      [] h = "show_product_from_order" -> <<"product_info_list">>
      [] h = "show_product_details" -> <<"product_info_list">>
      [] h = "show_edit_stock_menu" -> <<"product_info_list", "get_fbs_stocks">>
      [] h = "update_product_stock" ->
             <<"product_info_list", "update_product_stocks">>
      [] h = "get_product_barcode_by_id" -> <<"product_info_list">>
      [] OTHER -> <<>>

Outlined ==
    {"show_main_menu", "show_labels_menu", "show_notifications_menu",
     "show_monitoring_status", "invalid_product_id",
     "show_packaging_orders", "show_delivery_orders",
     "show_all_products_menu", "show_products_by_status",
     "show_order_products",
     "get_order_barcodes",
     "show_product_from_order", "show_product_details",
     "show_edit_stock_menu", "update_product_stock",
     "get_product_barcode_by_id"}

\* a handler in outline: it goes on to its second call only if the first
\* gave no error, and replies
OutlinedHandler(h, r1, r2) ==
    LET fns == CollaboratorCalls(h) IN
    IF fns = <<>> THEN Outcome(<<>>, <<Msg(h, FALSE)>>, "")
    ELSE IF Len(fns) = 1 \/ HasError(r1)
    THEN Outcome(<<Call(fns[1], r1)>>, <<Msg(h, FALSE)>>, "")
    ELSE Outcome(<<Call(fns[1], r1), Call(fns[2], r2)>>,
                 <<Msg(h, FALSE)>>, "")

(***************************************************************************)
(* The handlers of setup_handlers, each run from its first line to its     *)
(* last on one update.  The monitor threads are taken between two polls,   *)
(* in the sleep of _monitor_loop.                                          *)
(***************************************************************************)
\* the update is handled with outcome o
Handled(user_id, kind, data, o) ==
    /\ polling
    /\ update' = [user |-> user_id, kind |-> kind, data |-> data]
    /\ granted' = check_admin_access(user_id)
    /\ calls' = o.calls
    /\ sent' = o.sent
    /\ raised' = o.raised
    /\ UNCHANGED <<ADMIN_CHAT_ID, processed_orders, orders, posting_number,
                   new_orders, result, botVars, renotified, delivered,
                   lateSend, passed, funVars>>

\* the monitor is left as it is
MonitorUntouched == UNCHANGED <<is_running, monitor_thread, tpc, multi, quiet>>

\* /start: show_main_menu tests the access itself
start_command(user_id) ==
    /\ Handled(user_id, "command", <<"start">>,
               IF ~check_admin_access(user_id) THEN DeniedCommand
               ELSE Outcome(<<>>, <<Msg("main_menu", FALSE)>>, ""))
    /\ MonitorUntouched
    /\ pdf' = NoPdf

help_command(user_id) ==
    /\ Handled(user_id, "command", <<"help">>,
               IF ~check_admin_access(user_id) THEN DeniedCommand
               ELSE Outcome(<<>>, <<Msg("help", FALSE)>>, ""))
    /\ MonitorUntouched
    /\ pdf' = NoPdf

orders_command(user_id) ==
    /\ Handled(user_id, "command", <<"orders">>,
               IF ~check_admin_access(user_id) THEN DeniedCommand
               ELSE Outcome(<<>>, <<Msg("orders_menu", TRUE)>>, ""))
    /\ MonitorUntouched
    /\ pdf' = NoPdf

labels_command(user_id) ==
    /\ Handled(user_id, "command", <<"labels">>,
               IF ~check_admin_access(user_id) THEN DeniedCommand
               ELSE Outcome(<<>>, <<Msg("show_labels_menu", FALSE)>>, ""))
    /\ MonitorUntouched
    /\ pdf' = NoPdf

monitor_command(user_id) ==
    /\ Handled(user_id, "command", <<"monitor">>,
               IF ~check_admin_access(user_id) THEN DeniedCommand
               ELSE Outcome(<<>>,
                            <<Msg(IF is_running THEN "monitoring_active"
                                  ELSE "monitoring_not_running", FALSE)>>,
                            ""))
    /\ MonitorUntouched
    /\ pdf' = NoPdf

\* callback_handler, lines 650-653
CallbackDenied(user_id, data) ==
    /\ ~check_admin_access(user_id)
    /\ Handled(user_id, "callback", data, DeniedCallback)
    /\ MonitorUntouched
    /\ pdf' = NoPdf

\* a run of the label pipeline inside a handler: the outcome of the handler
\* and the PDF that went into generate_smart_label
Piped(o, pdf_content) == [o |-> o, pdf |-> PipelinePdf(o, pdf_content)]

\* get_single_label on every answer of its collaborators
SingleLabelRuns ==
    {Piped(get_single_label(http, order_result,
               generate_smart_label(pdf_content, renders) # "None"),
           pdf_content) :
        http \in HttpOutcomes, order_result \in DetailResults,
        pdf_content \in Pdfs, renders \in BOOLEAN}

CallbackSingleLabel(user_id, data) ==
    /\ check_admin_access(user_id)
    /\ Route(data) = "get_single_label"
    /\ \E run \in SingleLabelRuns :
          /\ Handled(user_id, "callback", data, run.o)
          /\ pdf' = run.pdf
    /\ MonitorUntouched

\* get_combined_barcode_label on every answer of its collaborators
CombinedRuns ==
    {Piped(get_combined_barcode_label(order_result, http,
               generate_smart_label(pdf_content, renders) # "None",
               has_sku, detailed_result, combined_image),
           pdf_content) :
        order_result \in DetailResults, http \in HttpOutcomes,
        pdf_content \in Pdfs, renders \in BOOLEAN, has_sku \in BOOLEAN,
        detailed_result \in PlainResults, combined_image \in BOOLEAN}

CallbackCombined(user_id, data) ==
    /\ check_admin_access(user_id)
    /\ Route(data) = "get_combined_barcode_label"
    /\ \E run \in CombinedRuns :
          /\ Handled(user_id, "callback", data, run.o)
          /\ pdf' = run.pdf
    /\ MonitorUntouched

CallbackSingleBarcode(user_id, data) ==
    /\ check_admin_access(user_id)
    /\ Route(data) = "get_single_barcode"
    /\ \E http \in HttpOutcomes :
          Handled(user_id, "callback", data, get_single_barcode(http))
    /\ MonitorUntouched
    /\ pdf' = NoPdf

CallbackStats(user_id, data) ==
    /\ check_admin_access(user_id)
    /\ Route(data) = "show_stats"
    /\ \E packaging_result \in ListResults, delivery_result \in ListResults :
          Handled(user_id, "callback", data,
                  show_stats(packaging_result, delivery_result,
                             Cardinality(processed_orders)))
    /\ MonitorUntouched
    /\ pdf' = NoPdf

\* show_order_details on every answer of its collaborators
OrderDetailsRuns ==
    {show_order_details(order_result, detailed_result, has_images) :
        order_result \in OrderResults, detailed_result \in PlainResults,
        has_images \in BOOLEAN}

CallbackOrderDetails(user_id, data) ==
    /\ check_admin_access(user_id)
    /\ Route(data) = "show_order_details"
    /\ \E run \in OrderDetailsRuns : Handled(user_id, "callback", data, run)
    /\ MonitorUntouched
    /\ pdf' = NoPdf

\* ship_order on every answer of its collaborators
ShipOrderRuns ==
    {ship_order(order_before, ship_result, order_after) :
        order_before \in OrderResults, ship_result \in PlainResults,
        order_after \in DetailResults}

CallbackShipOrder(user_id, data) ==
    /\ check_admin_access(user_id)
    /\ Route(data) = "ship_order"
    /\ \E run \in ShipOrderRuns : Handled(user_id, "callback", data, run)
    /\ MonitorUntouched
    /\ pdf' = NoPdf

CallbackOutlined(user_id, data) ==
    /\ check_admin_access(user_id)
    /\ Route(data) \in Outlined
    /\ \E r1 \in PlainResults, r2 \in PlainResults :
          Handled(user_id, "callback", data,
                  OutlinedHandler(Route(data), r1, r2))
    /\ MonitorUntouched
    /\ pdf' = NoPdf

\* no branch of the chain acts on the data
CallbackNone(user_id, data) ==
    /\ check_admin_access(user_id)
    /\ Route(data) = "none"
    /\ Handled(user_id, "callback", data, Outcome(<<>>, <<>>, ""))
    /\ MonitorUntouched
    /\ pdf' = NoPdf

\* OzonBot.start_monitoring: a monitor that runs is left alone, else
\* OrderMonitor.start_monitoring starts a thread
CallbackStartMonitoring(user_id, data) ==
    /\ check_admin_access(user_id)
    /\ Route(data) = "start_monitoring"
    /\ IF is_running
       THEN /\ Handled(user_id, "callback", data,
                       Outcome(<<>>, <<Msg("monitoring_already_running", FALSE)>>, ""))
            /\ MonitorUntouched
       ELSE /\ Handled(user_id, "callback", data,
                       Outcome(<<Call("order_monitor.start_monitoring", NoneResult)>>,
                               <<Msg("monitoring_started", FALSE)>>, ""))
            /\ \E t \in Unborn :
                  /\ \A u \in Unborn : t <= u
                  /\ SpawnMonitor(t)
    /\ pdf' = NoPdf

\* OzonBot.stop_monitoring: OrderMonitor.stop_monitoring clears is_running
\* and joins monitor_thread, which wakes, finds the flag false and ends
CallbackStopMonitoring(user_id, data) ==
    /\ check_admin_access(user_id)
    /\ Route(data) = "stop_monitoring"
    /\ IF ~is_running
       THEN /\ Handled(user_id, "callback", data,
                       Outcome(<<>>, <<Msg("monitoring_not_running", FALSE)>>, ""))
            /\ MonitorUntouched
       ELSE /\ Handled(user_id, "callback", data,
                       Outcome(<<Call("order_monitor.stop_monitoring", NoneResult)>>,
                               <<Msg("monitoring_stopped", FALSE)>>, ""))
            /\ is_running' = FALSE
            /\ tpc' = IF JoinTarget = None THEN tpc
                      ELSE [tpc EXCEPT ![JoinTarget] = "dead"]
            /\ quiet' = [st |-> "returned", by |-> 1]
            /\ UNCHANGED <<monitor_thread, multi>>
    /\ pdf' = NoPdf

callback_handler(user_id, data) ==
    \/ CallbackDenied(user_id, data)
    \/ CallbackSingleLabel(user_id, data)
    \/ CallbackCombined(user_id, data)
    \/ CallbackSingleBarcode(user_id, data)
    \/ CallbackStats(user_id, data)
    \/ CallbackOrderDetails(user_id, data)
    \/ CallbackShipOrder(user_id, data)
    \/ CallbackOutlined(user_id, data)
    \/ CallbackNone(user_id, data)
    \/ CallbackStartMonitoring(user_id, data)
    \/ CallbackStopMonitoring(user_id, data)

Next ==
    \/ Run
    \/ \E t \in Threads : ThreadStep(t)
    \/ \E h \in Workers : WorkerStep(h)

Spec == Init /\ [][Next]_vars

\* the bot with its handlers run one at a time, by a single worker: every
\* start_monitoring and stop_monitoring ends before the next one begins, so
\* that the monitor has a single thread
SerialNext ==
    \/ Run
    \/ \E t \in Threads : ThreadStep(t)
    \/ \E h \in {1} : WorkerStep(h)

SerialSpec == Init /\ [][SerialNext]_vars

\* a monitor thread that can take a step takes it: no thread of the
\* process is starved for ever
LiveSpec == Spec /\ \A t \in Threads : WF_vars(ThreadStep(t))

SerialLiveSpec == SerialSpec /\ \A t \in Threads : WF_vars(ThreadStep(t))

(***************************************************************************)
(* The bot and its users: any user sends any command and presses any       *)
(* button, one update at a time.                                           *)
(***************************************************************************)
BotInit ==
    /\ \E admin_chat_id \in AdminChatIds : Construct(admin_chat_id)
    /\ arg = NoArg
    /\ out = NoOut

BotNext ==
    \/ Run
    \/ \E user_id \in Users :
          \/ start_command(user_id)
          \/ help_command(user_id)
          \/ orders_command(user_id)
          \/ labels_command(user_id)
          \/ monitor_command(user_id)
    \/ \E user_id \in Users, data \in CallbackData :
          callback_handler(user_id, data)

BotSpec == BotInit /\ [][BotNext]_vars

(***************************************************************************)
(* The order monitor: duplicate notifications, lost notifications, the     *)
(* poll loop under failures, cancellation, and the number of threads.      *)
(***************************************************************************)
Failed == {"error", "raises"}

\* postings a poll in progress has put into new_orders and not yet notified
Pending == UNION {Range(new_orders[t]) : t \in Threads}

\* C1: with a single monitor thread, a posting number that is already in
\* processed_orders is never put into new_orders again, whatever the polls
\* return.
C1_NoRenotify == ~multi => ~renotified

\* a poll has just passed over a posting that an earlier poll had processed
C1_Witness ==
    /\ ~multi
    /\ ~renotified
    /\ \E t \in Threads :
          /\ tpc[t] = "scan"
          /\ posting_number[t] \in processed_orders
          /\ posting_number[t] \notin Range(new_orders[t])

\* C2: every posting number check_new_orders has added to processed_orders
\* is covered by a notification that was delivered, or is still in the
\* new_orders of the poll that added it.
C2_EveryNewOrderNotified == processed_orders \subseteq (delivered \cup Pending)

\* C3: a poll whose API call fails leaves processed_orders unchanged, sends
\* nothing and goes on to the sleep of _monitor_loop; a monitor thread ends
\* only when it finds is_running false; and after a failed poll the thread
\* polls again unless it has found is_running false.
C3_FailedPollStep ==
    \A t \in Threads :
        /\ (tpc[t] = "poll" /\ tpc'[t] # "poll" /\ result'[t] \in Failed) =>
              /\ processed_orders' = processed_orders
              /\ delivered' = delivered
              /\ new_orders' = new_orders
              /\ tpc'[t] = "while"
        /\ (Alive(t) /\ tpc'[t] = "dead") => ~is_running

C3_PollLoopSurvives ==
    /\ [][C3_FailedPollStep]_vars
    /\ \A t \in Threads :
          (tpc[t] = "while" /\ result[t] \in Failed)
              ~> (tpc[t] = "poll" \/ tpc[t] = "dead")

C3_Witness ==
    \E t \in Threads :
        tpc[t] = "poll" /\ result[t] \in Failed /\ is_running

\* C4: once a stop_monitoring that no start_monitoring follows has returned,
\* no notification is sent.
C4_NoSendAfterStop == ~lateSend

\* C5: at most one _monitor_loop thread is alive, and no posting number is
\* put into new_orders twice.
C5_OneMonitorThread == Cardinality(AliveThreads) <= 1 /\ ~renotified

(***************************************************************************)
(* The bot and its users: access, the results of the marketplace client,   *)
(* and what the operator is told.                                          *)
(***************************************************************************)
\* the update handled last came from a user that is_admin rejects
FromNonAdmin == update.kind # "none" /\ ~is_admin(update.user)

\* a handler that runs for a user is_admin rejects leaves the monitor as it is
C6_NonAdminStep ==
    (polling /\ ~is_admin(update'.user)) =>
        UNCHANGED <<is_running, monitor_thread, tpc, processed_orders>>

\* C6: for every command and every callback query of a user who is not in
\* admin_ids, the handler sends the access-denied reply and nothing else,
\* makes no collaborator call (no marketplace request, no ship, no stock
\* update), and neither starts nor stops the order monitor.
C6_NonAdminOnlyDenied ==
    /\ [](FromNonAdmin =>
             /\ calls = <<>>
             /\ raised = ""
             /\ sent # <<>>
             /\ Range(sent) \subseteq {AccessDenied, AccessDeniedAlert}
             /\ sent[Len(sent)] = AccessDenied)
    /\ [][C6_NonAdminStep]_vars

\* a user outside admin_ids has pressed the ship button of an order while
\* the monitor runs
C6_Witness ==
    /\ FromNonAdmin
    /\ update.kind = "callback"
    /\ Route(update.data) = "ship_order"
    /\ sent = <<AccessDeniedAlert, AccessDenied>>
    /\ is_running

\* C7: access is granted to a user exactly when str(user_id) is the
\* configured ADMIN_CHAT_ID.
C7_SingleOperator ==
    update.kind # "none" =>
        (granted <=> Str(update.user) = ADMIN_CHAT_ID)

\* C8: whatever requests.post does, get_package_label and get_barcode
\* return a dict that is a file, a JSON body, or has the key "error";
\* never None.
C8_TaggedResults ==
    \A i \in 1..Len(calls) :
        calls[i].fn \in {"get_package_label", "get_barcode"} =>
            \/ calls[i].res.tag \in {"file", "json"}
            \/ HasError(calls[i].res)

\* C9: get_single_label ends without an exception, and the last message
\* it has sent carries the main_menu button.
C9_LabelEndsWithMenu ==
    (update.kind = "callback" /\ granted
        /\ Route(update.data) = "get_single_label") =>
        /\ raised = ""
        /\ sent # <<>>
        /\ sent[Len(sent)].menu

\* C10: when one of the two calls of show_stats has returned an error
\* result, the message sent is not the statistics with a count of 0 for
\* the failed call.
C10_StatsReportFailure ==
    (update.kind = "callback" /\ granted
        /\ Route(update.data) = "show_stats"
        /\ \E i \in 1..Len(calls) : HasError(calls[i].res)) =>
        \A j \in 1..Len(sent) : sent[j].text # "stats"

\* the label pipeline was given bytes that are no PDF, or a PDF without pages
BadPdf == pdf \in {"unparseable", "zero_pages"}

\* a handler whose label pipeline gets such a PDF leaves the monitor alone
C11_BadPdfStep ==
    (polling /\ pdf' \in {"unparseable", "zero_pages"}) =>
        UNCHANGED <<is_running, processed_orders, monitor_thread, tpc>>

\* C11: for a PDF that is unparseable or has no pages generate_smart_label
\* returns None and raises nothing; get_single_label then sends the PDF of
\* the marketplace as it is, followed by the message with the main_menu
\* button; get_combined_barcode_label sends an error message with the
\* main_menu button; is_running and processed_orders stay as they are.
C11_BadPdfAbortsArtifact ==
    /\ [](BadPdf =>
            /\ raised = ""
            /\ \E i \in 1..Len(calls) :
                  calls[i] = Call("generate_smart_label", Res("None", FALSE, 0))
            /\ Route(update.data) = "get_single_label" =>
                  sent = <<Msg("generating_label", FALSE),
                           Msg("pdf_label_document", FALSE),
                           Msg("label_sent", TRUE)>>
            /\ Route(update.data) = "get_combined_barcode_label" =>
                  sent = <<Msg("creating_combined", FALSE),
                           Msg("combined_no_smart_label", TRUE)>>)
    /\ [][C11_BadPdfStep]_vars

\* get_combined_barcode_label has been given a PDF without pages while the
\* monitor runs
C11_Witness ==
    /\ pdf = "zero_pages"
    /\ Route(update.data) = "get_combined_barcode_label"
    /\ sent[Len(sent)] = Msg("combined_no_smart_label", TRUE)
    /\ is_running

(***************************************************************************)
(* The image and text functions of the label pipeline, each run on its     *)
(* own on arguments drawn from small sets, while the bot stands as         *)
(* constructed.                                                            *)
(***************************************************************************)
\* the rest of the program does not move
ProgramIdle == UNCHANGED <<monVars, thrVars, botVars, obsVars, hdlVars>>

(***************************************************************************)
(* draw_text_with_smart_fit.  A word is its number of characters and a     *)
(* line the number of characters of its words and the spaces between       *)
(* them; draw.textlength grows with the characters and with the font size. *)
(***************************************************************************)
TextLength(chars, font_size) == chars * (font_size \div 2)

\* the while of line 3234: characters are cut from the word while the word
\* with "..." is too wide and more than 3 characters are left
RECURSIVE Truncated(_, _, _)
Truncated(truncated_word, font_size, limit) ==
    IF TextLength(truncated_word + 3, font_size) > limit /\ truncated_word > 3
    THEN Truncated(truncated_word - 1, font_size, limit)
    ELSE truncated_word

\* the loop "for word in words" from word i on, and the final append;
\* current_line = 0 is the empty string.  A word that does not fit after a
\* line that is not empty starts the next line as it is; a word that does
\* not fit on an empty line is cut (truncates) or appended as it is.
RECURSIVE Wrap(_, _, _, _, _, _, _)
Wrap(words, i, lines, current_line, font_size, limit, truncates) ==
    IF i > Len(words)
    THEN IF current_line # 0 THEN Append(lines, current_line) ELSE lines
    ELSE LET word == words[i]
             test_line == IF current_line = 0 THEN word
                          ELSE current_line + 1 + word
         IN  IF TextLength(test_line, font_size) <= limit
             THEN Wrap(words, i + 1, lines, test_line, font_size, limit, truncates)
             ELSE IF current_line # 0
             THEN Wrap(words, i + 1, Append(lines, current_line), word,
                       font_size, limit, truncates)
             ELSE IF truncates
             THEN Wrap(words, i + 1,
                       Append(lines, Truncated(word, font_size, limit) + 3),
                       0, font_size, limit, truncates)
             ELSE Wrap(words, i + 1, Append(lines, word), 0,
                       font_size, limit, truncates)

\* the three copies of the function: the candidate sizes, the most lines
\* and the margin of the sized path, and the size, the margin and the
\* line cap of the last resort
SmartLabelFit ==
    [name |-> "generate_smart_label",
     font_sizes |-> <<50, 45, 40, 35, 30, 25, 20, 18, 16, 14, 12>>,
     max_lines |-> 4, margin |-> 20, truncates |-> TRUE,
     fb_size |-> 20, fb_margin |-> 10, fb_truncates |-> TRUE, fb_lines |-> 3]

CombinedBarcodeFit ==
    [name |-> "generate_barcode_image_for_combined",
     font_sizes |-> <<35, 30, 25, 20, 18, 16, 14, 12, 10>>,
     max_lines |-> 3, margin |-> 20, truncates |-> TRUE,
     fb_size |-> 16, fb_margin |-> 0, fb_truncates |-> FALSE, fb_lines |-> 2]

BarcodeFit ==
    [name |-> "generate_barcode_image",
     font_sizes |-> <<40, 35, 30, 25, 20, 18, 16, 14, 12, 10>>,
     max_lines |-> 3, margin |-> 0, truncates |-> FALSE,
     fb_size |-> 18, fb_margin |-> 0, fb_truncates |-> FALSE, fb_lines |-> 2]

Fitters == {SmartLabelFit, CombinedBarcodeFit, BarcodeFit}

\* lines[:n]
FirstLines(lines, n) == SubSeq(lines, 1, IF Len(lines) < n THEN Len(lines) ELSE n)

\* what is drawn: by the sized path at the first candidate size whose lines
\* are few enough and low enough, else by the last resort
RECURSIVE draw_text_with_smart_fit(_, _, _, _, _)
draw_text_with_smart_fit(v, words, max_width, max_height, k) ==
    IF k > Len(v.font_sizes)
    THEN [fn |-> "fit", path |-> "last_resort", font_size |-> v.fb_size,
          lines |-> FirstLines(Wrap(words, 1, <<>>, 0, v.fb_size,
                                    max_width - v.fb_margin, v.fb_truncates),
                               v.fb_lines)]
    ELSE LET font_size == v.font_sizes[k]
             lines == Wrap(words, 1, <<>>, 0, font_size,
                           max_width - v.margin, v.truncates)
         IN  IF Len(lines) * font_size <= max_height /\ Len(lines) <= v.max_lines
             THEN [fn |-> "fit", path |-> "sized", font_size |-> font_size,
                   lines |-> lines]
             ELSE draw_text_with_smart_fit(v, words, max_width, max_height, k + 1)

\* the texts: words of few and of many characters
WordLengths == {2, 30}
Texts == UNION {[1..n -> WordLengths] : n \in 0..MaxWords}
\* the width of the image and the height of the band of the text
MaxWidths == {60, 200}
MaxHeights == {40, 100}

FitArgs ==
    {[fn |-> "fit", v |-> v, words |-> w, max_width |-> mw, max_height |-> mh] :
        v \in Fitters, w \in Texts, mw \in MaxWidths, mh \in MaxHeights}

FitInit == Construct(<<>>) /\ arg \in FitArgs /\ out = NoOut

DrawText ==
    /\ arg.fn = "fit"
    /\ out = NoOut
    /\ out' = draw_text_with_smart_fit(arg.v, arg.words, arg.max_width,
                                       arg.max_height, 1)
    /\ UNCHANGED arg
    /\ ProgramIdle

FitNext == DrawText

FitSpec == FitInit /\ [][FitNext]_vars

\* C12: the sized path draws no line wider than max_width, and the last
\* resort draws no more lines than its cap.
C12_LinesWithinWidth ==
    out # NoOut =>
        /\ out.path = "sized" =>
              \A i \in 1..Len(out.lines) :
                  TextLength(out.lines[i], out.font_size) <= arg.max_width
        /\ out.path = "last_resort" => Len(out.lines) <= arg.v.fb_lines

\* the smallest candidate size of a copy: the last of its list
SmallestSize(v) == v.font_sizes[Len(v.font_sizes)]

\* C13: when no candidate size fits, the text is drawn at the smallest
\* candidate size, and only its first lines up to the cap are drawn.
C13_LastResortSmallestSize ==
    (out # NoOut /\ out.path = "last_resort") =>
        /\ out.font_size = SmallestSize(arg.v)
        /\ Len(out.lines) <= arg.v.fb_lines

(***************************************************************************)
(* smart_crop_image.  An image is its width and the set of its columns in  *)
(* which a sampled pixel has content; the height and the sampled rows are  *)
(* the same before and after a crop.                                       *)
(***************************************************************************)
\* the brightness below which a channel counts as content
ContentBelow == 250
\* the columns kept on each side of the content
Pad == 10
\* the blank columns on the right that are not worth a crop
Tolerance == 10

\* line 3478: the test of one sampled RGB pixel
IsContent(r, g, b) == r < ContentBelow \/ g < ContentBelow \/ b < ContentBelow

Lowest(cols) == CHOOSE x \in cols : \A y \in cols : x <= y
Highest(cols) == CHOOSE x \in cols : \A y \in cols : x >= y

\* lines 3471-3487
LeftBoundary(img) ==
    IF img.content = {} THEN 0
    ELSE IF Lowest(img.content) - Pad < 0 THEN 0
         ELSE Lowest(img.content) - Pad

\* the right boundary without the columns kept after the content
RightBoundaryNoPad(img) ==
    IF img.content = {} THEN img.width ELSE Highest(img.content)

\* lines 3490-3506
RightBoundary(img) ==
    IF img.content = {} THEN img.width
    ELSE IF Highest(img.content) + Pad > img.width THEN img.width
         ELSE Highest(img.content) + Pad

\* line 3509
Crops(img) ==
    LeftBoundary(img) > 0 \/ RightBoundary(img) < img.width - Tolerance

\* img.crop((left_boundary, 0, right_boundary, height)): the columns from
\* left_boundary up to right_boundary - 1, renumbered from 0
Crop(img, left, right) ==
    [width |-> right - left,
     content |-> {x - left : x \in {c \in img.content : c >= left /\ c < right}}]

smart_crop_image(img) ==
    IF Crops(img) THEN Crop(img, LeftBoundary(img), RightBoundary(img))
    ELSE img

\* images with at most two columns of content
ImagesOfWidth(w) ==
    {[width |-> w, content |-> {a, b}] : a \in 0..(w - 1), b \in 0..(w - 1)}
    \cup {[width |-> w, content |-> {}]}
CropImages == UNION {ImagesOfWidth(w) : w \in 1..MaxImageWidth}

\* channel values on both sides of the threshold
Channels == {0, 249, 250, 255}

CropArgs ==
    {[fn |-> "crop", img |-> img] : img \in CropImages}
    \cup {[fn |-> "pixel", r |-> r, g |-> g, b |-> b] :
             r \in Channels, g \in Channels, b \in Channels}

CropInit == Construct(<<>>) /\ arg \in CropArgs /\ out = NoOut

\* smart_crop_image on an image, and again on what it returned
CropTwice ==
    /\ arg.fn = "crop"
    /\ out = NoOut
    /\ out' = [fn |-> "crop",
               cropped |-> Crops(arg.img),
               once |-> smart_crop_image(arg.img),
               twice |-> smart_crop_image(smart_crop_image(arg.img))]
    /\ UNCHANGED arg
    /\ ProgramIdle

\* the content test on one sampled pixel
SamplePixel ==
    /\ arg.fn = "pixel"
    /\ out = NoOut
    /\ out' = [fn |-> "pixel", has_content |-> IsContent(arg.r, arg.g, arg.b)]
    /\ UNCHANGED arg
    /\ ProgramIdle

CropNext == CropTwice \/ SamplePixel

CropSpec == CropInit /\ [][CropNext]_vars

\* C14: a crop of the result of a crop changes nothing: the second result
\* has the width and the content columns of the first.
C14_CropIdempotent ==
    out.fn = "crop" => out.twice = out.once

\* an image with blank columns on both sides has been cropped, and cropped
\* again
C14_Witness ==
    /\ out.fn = "crop"
    /\ out.cropped
    /\ out.once.width < arg.img.width - Tolerance - Pad
    /\ LeftBoundary(arg.img) > 0
    /\ out.twice = out.once

\* C15: when the window from left_boundary to right_boundary spans the
\* width within 10 pixels on each side, the image is returned as it is.
C15_NoOpGuard ==
    (/\ out.fn = "crop"
     /\ LeftBoundary(arg.img) <= Tolerance
     /\ RightBoundary(arg.img) >= arg.img.width - Tolerance) =>
        (~out.cropped /\ out.once = arg.img)

\* C16: a sampled pixel counts as content exactly when the average of its
\* three channels is below 250.
C16_AverageBrightness ==
    out.fn = "pixel" =>
        (out.has_content <=> (arg.r + arg.g + arg.b) < 3 * ContentBelow)

(***************************************************************************)
(* The composers: generate_smart_label from the rotated label on, the two  *)
(* barcode generators, and create_combined_barcode_label_image.            *)
(***************************************************************************)
\* the widest image the printer takes, in pixels
MAX_WIDTH == 1202

\* generate_smart_label, lines 3150-3169 and 3440-3448: the canvas has the
\* width of the rotated label, at most MAX_WIDTH; the label is pasted at
\* the left edge and loses what is beyond the canvas; the two texts are
\* drawn under it, centred, and count as content from the first to the
\* last of their columns if a sampled row crosses them (text_width = 0 if
\* none does); the image is then given to smart_crop_image.
ComposeLabel(label, text_width) ==
    LET pdf_width == IF label.width > MAX_WIDTH THEN MAX_WIDTH ELSE label.width
        pasted == {c \in label.content : c < pdf_width}
        line_x == (pdf_width - text_width) \div 2
        text == IF text_width = 0 THEN {}
                ELSE {line_x, line_x + text_width - 1}
        final_img == [width |-> pdf_width, content |-> pasted \cup text]
    IN  smart_crop_image(final_img)

\* rotated labels: narrow, as wide as the printer takes, and wider, with
\* at most two columns of content near the edges or inside
LabelWidths == {200, 1202, 1300}
LabelColumns(w) == {0, 5, 50, w - 30, w - 1}
Labels ==
    UNION {{[width |-> w, content |-> {a, b}] :
                a \in LabelColumns(w), b \in LabelColumns(w)}
           \cup {[width |-> w, content |-> {}]} : w \in LabelWidths}
TextWidths == {0, 100}

\* code.render: the symbol of a payload of n characters has eleven modules
\* for each character and 35 for start, check and stop, between two quiet
\* zones; v gives the pixels of a module, of a quiet zone and of the height
RawWidth(v, n) == (11 * n + 35) * v.module_px + 2 * v.quiet_px

PlainBarcode ==
    [name |-> "generate_barcode_image", module_px |-> 9, quiet_px |-> 71,
     raw_height |-> 472, text_height |-> 300, padding_vertical |-> 30,
     scales |-> FALSE]

CombinedBarcode ==
    [name |-> "generate_barcode_image_for_combined", module_px |-> 12,
     quiet_px |-> 47, raw_height |-> 590, text_height |-> 300,
     padding_vertical |-> 5, scales |-> TRUE]

BarcodeGenerators == {PlainBarcode, CombinedBarcode}

\* the symbol after lines 2568-2574 (generate_barcode_image_for_combined
\* only): a symbol wider than MAX_WIDTH is resized to MAX_WIDTH, its height
\* in proportion
Symbol(v, n) ==
    LET width == RawWidth(v, n) IN
    IF v.scales /\ width > MAX_WIDTH
    THEN [width |-> MAX_WIDTH, height |-> (v.raw_height * MAX_WIDTH) \div width]
    ELSE [width |-> width, height |-> v.raw_height]

\* the image returned: as wide as MAX_WIDTH (for_combined, line 2580) or as
\* the symbol (line 2923), the symbol above the band of the texts
BarcodeImage(v, n) ==
    [width |-> IF v.scales THEN MAX_WIDTH ELSE Symbol(v, n).width,
     height |-> Symbol(v, n).height + v.text_height + 2 * v.padding_vertical,
     symbol |-> Symbol(v, n)]

\* create_combined_barcode_label_image, lines 2296-2322
\* the space between two barcodes
BarcodePadding == 20
\* the rows left above the label
LabelTop == 10
\* the rows added to the canvas for the top and the bottom
CanvasMargin == 20

RECURSIVE SumHeights(_)
SumHeights(heights) ==
    IF heights = <<>> THEN 0 ELSE Head(heights) + SumHeights(Tail(heights))

\* the first barcode right under the label's top edge
FirstBarcodeYNoOffset(label_height) == label_height

\* line 2316: current_y before the loop
FirstBarcodeY(label_height) == label_height + LabelTop

\* lines 2318-2322: where each barcode is pasted
RECURSIVE PasteYs(_, _)
PasteYs(heights, current_y) ==
    IF heights = <<>> THEN <<>>
    ELSE <<current_y>> \o PasteYs(Tail(heights),
                                  current_y + Head(heights) + BarcodePadding)

CombinedLayout(label_height, heights) ==
    [total_height |-> label_height
                      + (SumHeights(heights) + (Len(heights) - 1) * BarcodePadding)
                      + CanvasMargin,
     label_y |-> LabelTop,
     ys |-> PasteYs(heights, FirstBarcodeY(label_height))]

LabelHeights == {50, 300}
BarcodeHeights == {40, 100}
HeightLists == UNION {[1..n -> BarcodeHeights] : n \in 1..MaxBarcodes}

ComposeArgs ==
    {[fn |-> "label", label |-> l, text_width |-> t] :
        l \in Labels, t \in TextWidths}
    \cup {[fn |-> "barcode", v |-> v, n |-> n] :
             v \in BarcodeGenerators, n \in 1..MaxPayload}
    \cup {[fn |-> "combined", label_height |-> l, heights |-> h] :
             l \in LabelHeights, h \in HeightLists}

ComposeInit == Construct(<<>>) /\ arg \in ComposeArgs /\ out = NoOut

SmartLabelImage ==
    /\ arg.fn = "label"
    /\ out = NoOut
    /\ out' = [fn |-> "label", img |-> ComposeLabel(arg.label, arg.text_width)]
    /\ UNCHANGED arg
    /\ ProgramIdle

GenerateBarcode ==
    /\ arg.fn = "barcode"
    /\ out = NoOut
    /\ out' = [fn |-> "barcode", raw_width |-> RawWidth(arg.v, arg.n),
               img |-> BarcodeImage(arg.v, arg.n)]
    /\ UNCHANGED arg
    /\ ProgramIdle

CombineImages ==
    /\ arg.fn = "combined"
    /\ out = NoOut
    /\ out' = [fn |-> "combined",
               layout |-> CombinedLayout(arg.label_height, arg.heights)]
    /\ UNCHANGED arg
    /\ ProgramIdle

ComposeNext == SmartLabelImage \/ GenerateBarcode \/ CombineImages

ComposeSpec == ComposeInit /\ [][ComposeNext]_vars

\* C17: the image generate_smart_label returns is as wide as the rotated
\* label, or 1202 pixels wide if the label is wider.
C17_ComposedWidth ==
    out.fn = "label" =>
        out.img.width = IF arg.label.width > MAX_WIDTH THEN MAX_WIDTH
                        ELSE arg.label.width

\* C18: both barcode generators return an image at most 1202 pixels wide,
\* and a symbol wider than that is resized to exactly 1202 pixels.
C18_BarcodeWidth ==
    out.fn = "barcode" =>
        /\ out.img.width <= MAX_WIDTH
        /\ out.raw_width > MAX_WIDTH => out.img.symbol.width = MAX_WIDTH

\* the rows of the canvas an element covers: from its y to below its height
Overlap(y1, h1, y2, h2) == y1 < y2 + h2 /\ y2 < y1 + h1

\* C19: the canvas is as high as the label and the barcodes with 20 rows
\* for each barcode; the label and the barcodes are pasted from top to
\* bottom in the order given, no two of them overlap, and each ends at or
\* above the bottom of the canvas.
C19_CombinedLayout ==
    out.fn = "combined" =>
        LET lay == out.layout
            hs == arg.heights
            n == Len(hs)
        IN  /\ lay.total_height
                   = arg.label_height
                     + SumHeights([i \in 1..n |-> hs[i] + 20])
            /\ Len(lay.ys) = n
            /\ lay.label_y >= 0
            /\ lay.label_y + arg.label_height <= lay.ys[1]
            /\ \A i \in 1..n :
                  /\ lay.ys[i] + hs[i] <= lay.total_height
                  /\ ~Overlap(lay.label_y, arg.label_height, lay.ys[i], hs[i])
                  /\ \A j \in 1..n :
                        i < j => lay.ys[i] + hs[i] <= lay.ys[j]

\* a label and three barcodes of different heights have been laid out
C19_Witness ==
    /\ out.fn = "combined"
    /\ Len(arg.heights) = MaxBarcodes
    /\ arg.heights[1] # arg.heights[2]
    /\ out.layout.ys[2] > out.layout.ys[1]

(***************************************************************************)
(* The annotation text of a label with one line item.  A string is the    *)
(* sequence of the code points of its characters, so that the case of a   *)
(* letter, a substring test and a replacement are what they are in the    *)
(* program.  The comments give the Cyrillic words in Latin letters.       *)
(***************************************************************************)
MaxNameWords == 3

Whitespace == {9, 10, 11, 12, 13, 32}

\* str.lower() for a Latin or a Cyrillic letter
LowerChar(c) ==
    IF c \in 65..90 \/ c \in 1040..1071 THEN c + 32
    ELSE IF c = 1025 THEN 1105
    ELSE c

lower(s) == [i \in 1..Len(s) |-> LowerChar(s[i])]

\* sub in s
Contains(sub, s) ==
    \E i \in 1..(Len(s) - Len(sub) + 1) : SubSeq(s, i, i + Len(sub) - 1) = sub

\* s.replace(old, new) for a non-empty old: every occurrence, from the left
RECURSIVE replace(_, _, _)
replace(s, old, new) ==
    IF Len(s) < Len(old) THEN s
    ELSE IF SubSeq(s, 1, Len(old)) = old
         THEN new \o replace(SubSeq(s, Len(old) + 1, Len(s)), old, new)
         ELSE <<Head(s)>> \o replace(Tail(s), old, new)

\* the number of occurrences of a non-empty sub in s that do not overlap
RECURSIVE Occurrences(_, _)
Occurrences(s, sub) ==
    IF Len(s) < Len(sub) THEN 0
    ELSE IF SubSeq(s, 1, Len(sub)) = sub
         THEN 1 + Occurrences(SubSeq(s, Len(sub) + 1, Len(s)), sub)
         ELSE Occurrences(Tail(s), sub)

RECURSIVE lstrip(_)
lstrip(s) ==
    IF s # <<>> /\ Head(s) \in Whitespace THEN lstrip(Tail(s)) ELSE s

RECURSIVE rstrip(_)
rstrip(s) ==
    IF s # <<>> /\ s[Len(s)] \in Whitespace
    THEN rstrip(SubSeq(s, 1, Len(s) - 1))
    ELSE s

strip(s) == rstrip(lstrip(s))

\* s.split(): the runs of characters between the runs of whitespace
RECURSIVE SplitFrom(_, _, _)
SplitFrom(s, done, current) ==
    IF s = <<>>
    THEN IF current = <<>> THEN done ELSE Append(done, current)
    ELSE IF Head(s) \in Whitespace
         THEN SplitFrom(Tail(s),
                        IF current = <<>> THEN done ELSE Append(done, current),
                        <<>>)
         ELSE SplitFrom(Tail(s), done, Append(current, Head(s)))

split(s) == SplitFrom(s, <<>>, <<>>)

\* sep.join(parts)
RECURSIVE Join(_, _)
Join(parts, sep) ==
    IF parts = <<>> THEN <<>>
    ELSE IF Len(parts) = 1 THEN Head(parts)
    ELSE Head(parts) \o sep \o Join(Tail(parts), sep)

\* \w: a letter, a digit or the underscore
IsWordChar(c) ==
    \/ c \in 48..57
    \/ c \in 65..90
    \/ c \in 97..122
    \/ c = 95
    \/ c \in 1040..1103
    \/ c \in {1025, 1105}

\* re.sub(r'[^\w\s\-]', '', s)
CleanName(s) ==
    SelectSeq(s, LAMBDA c : IsWordChar(c) \/ c \in Whitespace \/ c = 45)

\* 'N/A'
NA == <<78, 47, 65>>

\* 'Tovar'
Tovar == <<1058, 1086, 1074, 1072, 1088>>

\* color_patterns, in the order of the dictionary: <<pattern, colour>>
color_patterns == <<
    \* krasn: krasnyj
    <<<<1082, 1088, 1072, 1089, 1085>>,
      <<1082, 1088, 1072, 1089, 1085, 1099, 1081>>>>,
    \* sin: sinij
    <<<<1089, 1080, 1085>>,
      <<1089, 1080, 1085, 1080, 1081>>>>,
    \* golub: goluboj
    <<<<1075, 1086, 1083, 1091, 1073>>,
      <<1075, 1086, 1083, 1091, 1073, 1086, 1081>>>>,
    \* zelen: zelenyj
    <<<<1079, 1077, 1083, 1077, 1085>>,
      <<1079, 1077, 1083, 1077, 1085, 1099, 1081>>>>,
    \* zhelt: zheltyj
    <<<<1078, 1077, 1083, 1090>>,
      <<1078, 1077, 1083, 1090, 1099, 1081>>>>,
    \* oranzh: oranzhevyj
    <<<<1086, 1088, 1072, 1085, 1078>>,
      <<1086, 1088, 1072, 1085, 1078, 1077, 1074, 1099, 1081>>>>,
    \* fiolet: fioletovyj
    <<<<1092, 1080, 1086, 1083, 1077, 1090>>,
      <<1092, 1080, 1086, 1083, 1077, 1090, 1086, 1074, 1099, 1081>>>>,
    \* rozov: rozovyj
    <<<<1088, 1086, 1079, 1086, 1074>>,
      <<1088, 1086, 1079, 1086, 1074, 1099, 1081>>>>,
    \* fuksi: fuksiya
    <<<<1092, 1091, 1082, 1089, 1080>>,
      <<1092, 1091, 1082, 1089, 1080, 1103>>>>,
    \* korichnev: korichnevyj
    <<<<1082, 1086, 1088, 1080, 1095, 1085, 1077, 1074>>,
      <<1082, 1086, 1088, 1080, 1095, 1085, 1077, 1074, 1099, 1081>>>>,
    \* chern: chernyj
    <<<<1095, 1077, 1088, 1085>>,
      <<1095, 1077, 1088, 1085, 1099, 1081>>>>,
    \* bel: belyj
    <<<<1073, 1077, 1083>>,
      <<1073, 1077, 1083, 1099, 1081>>>>,
    \* ser: seryj
    <<<<1089, 1077, 1088>>,
      <<1089, 1077, 1088, 1099, 1081>>>>,
    \* zolot: zolotoj
    <<<<1079, 1086, 1083, 1086, 1090>>,
      <<1079, 1086, 1083, 1086, 1090, 1086, 1081>>>>,
    \* serebr: serebryanyj
    <<<<1089, 1077, 1088, 1077, 1073, 1088>>,
      <<1089, 1077, 1088, 1077, 1073, 1088, 1103, 1085, 1099, 1081>>>>,
    \* raduzhn: raduzhnyj
    <<<<1088, 1072, 1076, 1091, 1078, 1085>>,
      <<1088, 1072, 1076, 1091, 1078, 1085, 1099, 1081>>>>,
    \* raznocvetn: raznocvetnyj
    <<<<1088, 1072, 1079, 1085, 1086, 1094, 1074, 1077, 1090, 1085>>,
      <<1088, 1072, 1079, 1085, 1086, 1094, 1074, 1077, 1090, 1085, 1099, 1081>>>>,
    \* multicolor: raznocvetnyj
    <<<<109, 117, 108, 116, 105, 99, 111, 108, 111, 114>>,
      <<1088, 1072, 1079, 1085, 1086, 1094, 1074, 1077, 1090, 1085, 1099, 1081>>>>,
    \* rainbow: raduzhnyj
    <<<<114, 97, 105, 110, 98, 111, 119>>,
      <<1088, 1072, 1076, 1091, 1078, 1085, 1099, 1081>>>>,
    \* red: krasnyj
    <<<<114, 101, 100>>,
      <<1082, 1088, 1072, 1089, 1085, 1099, 1081>>>>,
    \* blue: sinij
    <<<<98, 108, 117, 101>>,
      <<1089, 1080, 1085, 1080, 1081>>>>,
    \* green: zelenyj
    <<<<103, 114, 101, 101, 110>>,
      <<1079, 1077, 1083, 1077, 1085, 1099, 1081>>>>,
    \* yellow: zheltyj
    <<<<121, 101, 108, 108, 111, 119>>,
      <<1078, 1077, 1083, 1090, 1099, 1081>>>>,
    \* orange: oranzhevyj
    <<<<111, 114, 97, 110, 103, 101>>,
      <<1086, 1088, 1072, 1085, 1078, 1077, 1074, 1099, 1081>>>>,
    \* purple: fioletovyj
    <<<<112, 117, 114, 112, 108, 101>>,
      <<1092, 1080, 1086, 1083, 1077, 1090, 1086, 1074, 1099, 1081>>>>,
    \* pink: rozovyj
    <<<<112, 105, 110, 107>>,
      <<1088, 1086, 1079, 1086, 1074, 1099, 1081>>>>,
    \* fuchsia: fuksiya
    <<<<102, 117, 99, 104, 115, 105, 97>>,
      <<1092, 1091, 1082, 1089, 1080, 1103>>>>,
    \* brown: korichnevyj
    <<<<98, 114, 111, 119, 110>>,
      <<1082, 1086, 1088, 1080, 1095, 1085, 1077, 1074, 1099, 1081>>>>,
    \* black: chernyj
    <<<<98, 108, 97, 99, 107>>,
      <<1095, 1077, 1088, 1085, 1099, 1081>>>>,
    \* white: belyj
    <<<<119, 104, 105, 116, 101>>,
      <<1073, 1077, 1083, 1099, 1081>>>>,
    \* gray: seryj
    <<<<103, 114, 97, 121>>,
      <<1089, 1077, 1088, 1099, 1081>>>>,
    \* grey: seryj
    <<<<103, 114, 101, 121>>,
      <<1089, 1077, 1088, 1099, 1081>>>>,
    \* gold: zolotoj
    <<<<103, 111, 108, 100>>,
      <<1079, 1086, 1083, 1086, 1090, 1086, 1081>>>>,
    \* silver: serebryanyj
    <<<<115, 105, 108, 118, 101, 114>>,
      <<1089, 1077, 1088, 1077, 1073, 1088, 1103, 1085, 1099, 1081>>>>
    >>

\* the colours the patterns stand for
Colours == {color_patterns[i][2] : i \in 1..Len(color_patterns)}

extract_color_from_product(color_image, product_name) ==
    IF color_image # <<>> THEN Head(color_image)
    ELSE IF product_name = <<>> \/ product_name = NA THEN NA
    ELSE LET name_lower == lower(product_name)
             hits == {i \in 1..Len(color_patterns) :
                         Contains(color_patterns[i][1], name_lower)}
         IN  IF hits = {} THEN NA
             ELSE color_patterns[CHOOSE i \in hits : \A j \in hits : i <= j][2]

\* color_words of shorten_product_name_for_barcode
color_words == {
    \* krasnyj
    <<1082, 1088, 1072, 1089, 1085, 1099, 1081>>,
    \* sinij
    <<1089, 1080, 1085, 1080, 1081>>,
    \* goluboj
    <<1075, 1086, 1083, 1091, 1073, 1086, 1081>>,
    \* zelenyj
    <<1079, 1077, 1083, 1077, 1085, 1099, 1081>>,
    \* zheltyj
    <<1078, 1077, 1083, 1090, 1099, 1081>>,
    \* oranzhevyj
    <<1086, 1088, 1072, 1085, 1078, 1077, 1074, 1099, 1081>>,
    \* fioletovyj
    <<1092, 1080, 1086, 1083, 1077, 1090, 1086, 1074, 1099, 1081>>,
    \* rozovyj
    <<1088, 1086, 1079, 1086, 1074, 1099, 1081>>,
    \* fuksiya
    <<1092, 1091, 1082, 1089, 1080, 1103>>,
    \* korichnevyj
    <<1082, 1086, 1088, 1080, 1095, 1085, 1077, 1074, 1099, 1081>>,
    \* chernyj
    <<1095, 1077, 1088, 1085, 1099, 1081>>,
    \* belyj
    <<1073, 1077, 1083, 1099, 1081>>,
    \* seryj
    <<1089, 1077, 1088, 1099, 1081>>,
    \* zolotoj
    <<1079, 1086, 1083, 1086, 1090, 1086, 1081>>,
    \* serebryanyj
    <<1089, 1077, 1088, 1077, 1073, 1088, 1103, 1085, 1099, 1081>>,
    \* raduzhnyj
    <<1088, 1072, 1076, 1091, 1078, 1085, 1099, 1081>>,
    \* raznocvetnyj
    <<1088, 1072, 1079, 1085, 1086, 1094, 1074, 1077, 1090, 1085, 1099, 1081>>
    }

\* the words taken in order while the result stays within the limit
RECURSIVE TakeWords(_, _, _)
TakeWords(ws, taken, limit) ==
    IF ws = <<>> THEN taken
    ELSE LET test_result ==
                 taken \o (IF taken # <<>> THEN <<32>> ELSE <<>>) \o Head(ws)
         IN  IF Len(test_result) <= limit
             THEN TakeWords(Tail(ws), test_result, limit)
             ELSE taken

\* long words cut to three letters and a dot, while they fit
RECURSIVE ShortenedWords(_, _, _, _)
ShortenedWords(ws, shortened_words, current_length, max_length) ==
    IF ws = <<>> THEN shortened_words
    ELSE LET word == Head(ws)
             piece == IF Len(word) > 4
                      THEN SubSeq(word, 1, 3) \o <<46>>
                      ELSE word
         IN  IF current_length + Len(piece) + 1 <= max_length
             THEN ShortenedWords(Tail(ws), Append(shortened_words, piece),
                                 current_length + Len(piece) + 1, max_length)
             ELSE shortened_words

shorten_product_name_for_barcode(product_name, max_length) ==
    IF product_name = <<>> \/ product_name = NA THEN Tovar
    ELSE
    LET clean_name == CleanName(product_name)
        ws == split(clean_name)
        found == {i \in 1..Len(ws) : lower(ws[i]) \in color_words}
    IN  IF Len(clean_name) <= max_length THEN clean_name
        ELSE IF ws = <<>> THEN SubSeq(clean_name, 1, max_length)
        ELSE IF found # {}
        THEN LET color_found ==
                     ws[CHOOSE i \in found : \A j \in found : i <= j]
                 words_without_color ==
                     SelectSeq(ws, LAMBDA x : lower(x) # lower(color_found))
                 color_length == Len(color_found) + 1
                 kept == TakeWords(words_without_color, <<>>,
                                   max_length - color_length)
             IN  IF kept # <<>> THEN kept \o <<32>> \o color_found
                 ELSE color_found
        ELSE LET whole == TakeWords(ws, <<>>, max_length)
                 dotted == IF whole # <<>> THEN whole
                           ELSE Join(ShortenedWords(ws, <<>>, 0, max_length),
                                     <<32>>)
             IN  IF dotted # <<>> THEN dotted
                 ELSE SubSeq(clean_name, 1, max_length)

\* the name shown for the one item: the short name and the colour
display_name(full_name) ==
    LET color == extract_color_from_product(<<>>, full_name)
    IN  IF color # NA /\ Contains(lower(color), lower(full_name))
        THEN LET short_name ==
                     strip(shorten_product_name_for_barcode(
                               replace(full_name, lower(color), <<>>), 25))
             IN  IF short_name # <<>> THEN short_name \o <<32>> \o color
                 ELSE color
        ELSE shorten_product_name_for_barcode(full_name, 30)

\* str(n) as code points
RECURSIVE StrCodes(_)
StrCodes(n) ==
    IF n < 10 THEN <<48 + n>>
    ELSE Append(StrCodes(n \div 10), 48 + (n % 10))

\* f"Zakaz {total_items} tovar: {display_name}"
product_text(products_info) ==
    LET product == products_info[1]
        total_items == product.quantity
    IN  <<1047, 1072, 1082, 1072, 1079, 32>> \o StrCodes(total_items)
            \o <<32, 1090, 1086, 1074, 1072, 1088, 58, 32>>
            \o display_name(product.name)

\* the words of the names of the products
Vocabulary == {
    \* Futbolka
    <<1060, 1091, 1090, 1073, 1086, 1083, 1082, 1072>>,
    \* krasnyj
    <<1082, 1088, 1072, 1089, 1085, 1099, 1081>>,
    \* Krasnyj
    <<1050, 1088, 1072, 1089, 1085, 1099, 1081>>,
    \* KRASNYJ
    <<1050, 1056, 1040, 1057, 1053, 1067, 1049>>,
    \* krasnaya
    <<1082, 1088, 1072, 1089, 1085, 1072, 1103>>,
    \* Red
    <<82, 101, 100>>,
    \* hlopchatobumazhnaya
    <<1093, 1083, 1086, 1087, 1095, 1072, 1090, 1086, 1073, 1091, 1084, 1072, 1078, 1085, 1072, 1103>>,
    \* (XL)
    <<40, 88, 76, 41>>,
    \* elektrovelosipedostroitel'nejshij
    <<1101, 1083, 1077, 1082, 1090, 1088, 1086, 1074, 1077, 1083, 1086, 1089, 1080, 1087, 1077, 1076, 1086, 1089, 1090, 1088, 1086, 1080, 1090, 1077, 1083, 1100, 1085, 1077, 1081, 1096, 1080, 1081>>
    }

WordLists == UNION {[1..n -> Vocabulary] : n \in 0..MaxNameWords}

Names == {Join(l, <<32>>) : l \in WordLists}

Quantities == {1, 12}

TextArgs == [fn : {"text"}, name : Names, quantity : Quantities]

TextInit == Construct(<<>>) /\ arg \in TextArgs /\ out = NoOut

\* generate_smart_label builds the text for a posting with one line item
ProductText ==
    /\ arg.fn = "text"
    /\ out = NoOut
    /\ out' = [fn |-> "text",
               color |-> extract_color_from_product(<<>>, arg.name),
               text |-> product_text(
                            <<[name |-> arg.name, quantity |-> arg.quantity]>>)]
    /\ UNCHANGED arg
    /\ ProgramIdle

TextNext == ProductText

TextSpec == TextInit /\ [][TextNext]_vars

\* C20: when the name of the one line item contains the colour that was
\* detected, in any letter case, the annotation text contains that colour
\* exactly once; when no colour is detected the text contains no colour word.
C20_ColourOnce ==
    out.fn = "text" =>
        LET text_lower == lower(out.text)
        IN  /\ (out.color # NA /\ Contains(out.color, lower(arg.name)))
                   => Occurrences(text_lower, out.color) = 1
            /\ out.color = NA
                   => \A c \in Colours : ~Contains(c, text_lower)

(***************************************************************************)
(* The details of an order and its shipment.                               *)
(***************************************************************************)
\* the update went to handler h and passed the test of access
HandledBy(h) ==
    update.kind = "callback" /\ granted /\ Route(update.data) = h

\* the calls of fn among the calls of the handler
CallsOf(fn) == {i \in 1..Len(calls) : calls[i].fn = fn}

\* C21: whatever the order (products with SKUs, without SKU, no products)
\* and whatever the request for product information gives, show_order_details
\* ends without an exception and its last message is the details of the
\* order with the main_menu button.
C21_DetailsAlwaysSent ==
    (HandledBy("show_order_details") /\ ~HasError(calls[1].res))
        => /\ raised = ""
           /\ sent[Len(sent)].text = "order_details"
           /\ sent[Len(sent)].menu

\* C26: ship_order makes the ship call at most once and only after a detail
\* fetch without error; the message of success is sent only if the ship call
\* gave no error; on an error of either call the last message is an error
\* with the main_menu button and no message of success is sent; the keyboard
\* of the message of success has no ship button.
C26_ShipOnceAfterDetails ==
    HandledBy("ship_order") =>
        LET ships == CallsOf("ship_order")
            success == {i \in 1..Len(sent) : sent[i].text = "ship_success"}
            failed == \/ HasError(calls[1].res)
                      \/ \E i \in ships : HasError(calls[i].res)
        IN  /\ Cardinality(ships) <= 1
            /\ \A i \in ships :
                  /\ i > 1
                  /\ calls[1].fn = "get_order_details"
                  /\ ~HasError(calls[1].res)
            /\ success # {}
                  => \E i \in ships : ~HasError(calls[i].res)
            /\ failed
                  => /\ success = {}
                     /\ sent[Len(sent)].text \in {"order_error", "ship_error"}
                     /\ sent[Len(sent)].menu
            /\ \A i \in success : "ship" \notin sent[i].buttons

\* an order was shipped and the message of success sent
C26_Witness ==
    /\ HandledBy("ship_order")
    /\ \E i \in CallsOf("ship_order") : ~HasError(calls[i].res)
    /\ sent[Len(sent)].text = "ship_success"
    /\ sent[Len(sent)].buttons # {}

\* C27: the ship call is made only for an order that the detail fetch of
\* ship_order found in the status awaiting_packaging.
C27_ShipOnlyAwaitingPackaging ==
    HandledBy("ship_order") =>
        \A i \in CallsOf("ship_order") :
            /\ ~HasError(calls[1].res)
            /\ calls[1].res.status = "awaiting_packaging"

(***************************************************************************)
(* The buttons of the bot and where callback_handler sends them.  An       *)
(* argument of a handler is, like the data, the sequence of its parts      *)
(* between the "_" characters.                                             *)
(***************************************************************************)
\* data.replace(prefix, ""), for a prefix of k parts
Rest(data, k) == SubSeq(data, k + 1, Len(data))

\* the arguments callback_handler passes after the chat, lines 659-743
RouteArgs(data) ==
    LET h == Route(data) IN
    IF h = "show_all_products_menu"
    THEN IF Eq(data, <<"all", "products">>) THEN <<(<<"0">>)>>
         ELSE <<Rest(data, 2)>>
    ELSE IF h = "show_products_by_status"
    THEN IF Eq(data, <<"products", "packaging">>)
         THEN <<(<<"awaiting", "packaging">>)>>
         ELSE <<(<<"awaiting", "deliver">>)>>
    ELSE IF h \in {"show_order_details", "ship_order", "show_order_products",
                   "get_order_barcodes", "get_combined_barcode_label",
                   "get_product_barcode_by_id"}
    THEN <<Rest(data, 1)>>
    ELSE IF h \in {"get_single_label", "get_single_barcode",
                   "show_product_details", "show_edit_stock_menu"}
    THEN <<Rest(data, 2)>>
    ELSE IF h = "show_product_from_order"
    THEN <<(<<data[2]>>), <<data[3]>>>>
    ELSE IF h = "update_product_stock"
    THEN <<(<<data[3]>>), <<data[4]>>>>
    ELSE <<>>

\* the handlers whose first argument names a product
ProductHandlers ==
    {"show_product_from_order", "show_product_details",
     "show_edit_stock_menu", "update_product_stock",
     "get_product_barcode_by_id"}

\* posting numbers, identifiers of products (SKUs), pages and the values of
\* the stock buttons
ButtonPostings == {"P1", "P2", "P3"}
ProductIds == {"1", "3", "5"}
Pages == {"0", "1", "2"}
stock_values == {"0", "1", "5", "10", "20", "50", "100"}

\* a button: the data it carries, the handler of its action and the
\* arguments that handler is to get
Button(data, handler, args) == [data |-> data, handler |-> handler, args |-> args]

\* every button the bot builds (all the callback_data of the source)
Emitted ==
    { Button(<<"main", "menu">>, "show_main_menu", <<>>),
      Button(<<"packaging", "orders">>, "show_packaging_orders", <<>>),
      Button(<<"delivery", "orders">>, "show_delivery_orders", <<>>),
      Button(<<"notifications">>, "show_notifications_menu", <<>>),
      Button(<<"all", "products">>, "show_all_products_menu", <<(<<"0">>)>>),
      Button(<<"stats">>, "show_stats", <<>>),
      Button(<<"start", "monitoring">>, "start_monitoring", <<>>),
      Button(<<"stop", "monitoring">>, "stop_monitoring", <<>>),
      Button(<<"monitoring", "status">>, "show_monitoring_status", <<>>) }
    \cup {Button(<<"order", p>>, "show_order_details", <<(<<p>>)>>) :
             p \in ButtonPostings}
    \cup {Button(<<"ship", p>>, "ship_order", <<(<<p>>)>>) :
             p \in ButtonPostings}
    \cup {Button(<<"download", "label", p>>, "get_single_label", <<(<<p>>)>>) :
             p \in ButtonPostings}
    \cup {Button(<<"products", p>>, "show_order_products", <<(<<p>>)>>) :
             p \in ButtonPostings}
    \cup {Button(<<"barcodes", p>>, "get_order_barcodes", <<(<<p>>)>>) :
             p \in ButtonPostings}
    \cup {Button(<<"combined", p>>, "get_combined_barcode_label", <<(<<p>>)>>) :
             p \in ButtonPostings}
    \cup {Button(<<"product", sku, p>>, "show_product_from_order",
                 <<(<<sku>>), <<p>>>>) :
             sku \in ProductIds, p \in ButtonPostings}
    \cup {Button(<<"item", "detail", id>>, "show_product_details", <<(<<id>>)>>) :
             id \in ProductIds}
    \cup {Button(<<"products", "page", n>>, "show_all_products_menu",
                 <<(<<n>>)>>) :
             n \in Pages}
    \cup {Button(<<"product", "info", sku>>, "product", <<(<<sku>>)>>) :
             sku \in ProductIds}
    \cup {Button(<<"barcode", id>>, "get_product_barcode_by_id", <<(<<id>>)>>) :
             id \in ProductIds}
    \cup {Button(<<"edit", "stock", id>>, "show_edit_stock_menu", <<(<<id>>)>>) :
             id \in ProductIds}
    \cup {Button(<<"update", "stock", id, value>>, "update_product_stock",
                 <<(<<id>>), <<value>>>>) :
             id \in ProductIds, value \in stock_values}
    \cup {Button(<<"manual", "stock", id>>, "product", <<(<<id>>)>>) :
             id \in ProductIds}

PressArgs == [fn : {"press"}, button : Emitted]

PressInit == Construct(<<>>) /\ arg \in PressArgs /\ out = NoOut

\* an admin presses the button: the chain of callback_handler picks the
\* handler and its arguments
Press ==
    /\ arg.fn = "press"
    /\ out = NoOut
    /\ out' = [fn |-> "press",
               handler |-> Route(arg.button.data),
               args |-> RouteArgs(arg.button.data)]
    /\ UNCHANGED arg
    /\ ProgramIdle

PressNext == Press

PressSpec == PressInit /\ [][PressNext]_vars

\* C22: every button the bot builds reaches the handler of its action with
\* the identifiers it was built from; a button of show_products_by_status
\* (product_info) or of show_edit_stock_menu (manual_stock) reaches a handler
\* for its product; none is taken by an earlier branch or ignored.
C22_ButtonsReachHandler ==
    out.fn = "press" =>
        LET button == arg.button IN
        IF button.handler = "product"
        THEN /\ out.handler \in ProductHandlers
             /\ out.args # <<>>
             /\ out.args[1] = button.args[1]
        ELSE /\ out.handler = button.handler
             /\ out.args = button.args

(***************************************************************************)
(* generate_smart_label: the rows of the two texts under the label.        *)
(***************************************************************************)
\* text_height of line 3162: the rows the canvas has under the label
CanvasTextHeight == 200
\* text_start_y = pdf_height + 20
TextStartOffset == 20
\* text_height of line 3422: the rows the two texts are given
DrawnTextHeight == 400

\* the rows of the lines of one text drawn from row y on: line i of the
\* text starts at y + i * font_size
LineRows(y, fit) ==
    [i \in 1..Len(fit.lines) |->
        [line_y |-> y + (i - 1) * fit.font_size, font_size |-> fit.font_size]]

\* the canvas and the lines of product_text and of order_text
Annotate(pdf_width, pdf_height, product_words, order_words) ==
    LET total_height == pdf_height + CanvasTextHeight
        text_start_y == pdf_height + TextStartOffset
        half == DrawnTextHeight \div 2
    IN  [fn |-> "annotate",
         total_height |-> total_height,
         product |-> LineRows(text_start_y,
                         draw_text_with_smart_fit(SmartLabelFit, product_words,
                                                  pdf_width, half, 1)),
         order |-> LineRows(text_start_y + half,
                       draw_text_with_smart_fit(SmartLabelFit, order_words,
                                                pdf_width, half, 1))]

\* the width and the height of the rotated label
PdfWidths == {200, 1202}
PdfHeights == {50, 300}
\* "Zakaz:" and a posting number
OrderWords == {<<6, 14>>}

AnnotateArgs ==
    [fn : {"annotate"}, pdf_width : PdfWidths, pdf_height : PdfHeights,
     product_words : Texts, order_words : OrderWords]

AnnotateInit == Construct(<<>>) /\ arg \in AnnotateArgs /\ out = NoOut

DrawAnnotations ==
    /\ arg.fn = "annotate"
    /\ out = NoOut
    /\ out' = Annotate(arg.pdf_width, arg.pdf_height, arg.product_words,
                       arg.order_words)
    /\ UNCHANGED arg
    /\ ProgramIdle

AnnotateNext == DrawAnnotations

AnnotateSpec == AnnotateInit /\ [][AnnotateNext]_vars

\* the rows of the line are rows of a canvas of the height given
RowsInside(line, height) ==
    line.line_y >= 0 /\ line.line_y + line.font_size <= height

\* C23: every line of the product text and of the order text lies in rows of
\* the canvas, whose height is the height of the label plus 200.
C23_LinesInsideCanvas ==
    out.fn = "annotate" =>
        /\ out.total_height = arg.pdf_height + 200
        /\ \A i \in 1..Len(out.product) :
              RowsInside(out.product[i], out.total_height)
        /\ \A i \in 1..Len(out.order) :
              RowsInside(out.order[i], out.total_height)

(***************************************************************************)
(* create_combined_barcode_label_image: the columns of a barcode under     *)
(* the smart label.                                                        *)
(***************************************************************************)
\* lines 2304-2320: the canvas is as wide as the smart label and the
\* barcode is pasted at barcode_x
PasteBarcode(smart_label_img, barcode_img) ==
    LET total_width == smart_label_img.width
    IN  [fn |-> "paste",
         total_width |-> total_width,
         width |-> barcode_img.width,
         barcode_x |-> (total_width - barcode_img.width) \div 2]

PasteArgs ==
    [fn : {"paste"}, label : Labels, text_width : TextWidths,
     n : 1..MaxPayload]

PasteInit == Construct(<<>>) /\ arg \in PasteArgs /\ out = NoOut

\* the smart label of generate_smart_label and a barcode of
\* generate_barcode_image_for_combined are put on the canvas
PasteOnCanvas ==
    /\ arg.fn = "paste"
    /\ out = NoOut
    /\ out' = PasteBarcode(ComposeLabel(arg.label, arg.text_width),
                           BarcodeImage(CombinedBarcode, arg.n))
    /\ UNCHANGED arg
    /\ ProgramIdle

PasteNext == PasteOnCanvas

PasteSpec == PasteInit /\ [][PasteNext]_vars

\* C24: every barcode is pasted within the columns of the canvas:
\* 0 <= barcode_x and barcode_x + the width of the barcode <= the width of
\* the canvas.
C24_BarcodeInsideCanvas ==
    out.fn = "paste" =>
        /\ 0 <= out.barcode_x
        /\ out.barcode_x + out.width <= out.total_width

(***************************************************************************)
(* Config and OzonBot.run.  The environment gives each setting a value or  *)
(* leaves it unset.                                                        *)
(***************************************************************************)
\* a variable the environment does not hold
Unset == [set |-> FALSE, value |-> ""]
\* a variable the environment holds
Set(value) == [set |-> TRUE, value |-> value]

\* os.environ.get(name, default)
EnvironGet(var, default) == IF var.set THEN var.value ELSE default

\* the class attributes of Config, lines 14-19
Config(env) ==
    [BOT_TOKEN |-> EnvironGet(env.BOT_TOKEN, "YOUR_BOT_TOKEN_HERE"),
     OZON_API_KEY |-> EnvironGet(env.OZON_API_KEY, "YOUR_OZON_API_KEY_HERE"),
     OZON_CLIENT_ID |->
         EnvironGet(env.OZON_CLIENT_ID, "YOUR_OZON_CLIENT_ID_HERE")]

\* Config.validate, lines 34-54 (the test of ADMIN_CHAT_ID only prints)
validate(cls) ==
    IF cls.BOT_TOKEN = "YOUR_BOT_TOKEN" THEN FALSE
    ELSE IF cls.OZON_API_KEY = "YOUR_OZON_API_KEY" THEN FALSE
    ELSE IF cls.OZON_CLIENT_ID = "YOUR_OZON_CLIENT_ID" THEN FALSE
    ELSE TRUE

\* the environments: a setting is unset, empty, a key, or a placeholder
Environments ==
    [BOT_TOKEN :
         {Unset, Set(""), Set("12345:token"), Set("YOUR_BOT_TOKEN")},
     OZON_API_KEY :
         {Unset, Set(""), Set("api-key"), Set("YOUR_OZON_API_KEY")},
     OZON_CLIENT_ID :
         {Unset, Set(""), Set("client-id"), Set("YOUR_OZON_CLIENT_ID")}]

RunArgs == [fn : {"run"}, env : Environments]

RunInit == Construct(<<>>) /\ arg \in RunArgs /\ out = NoOut

\* OzonBot.run, lines 3690-3705: return if the configuration is not valid,
\* else start the monitor and the polling
RunConfigured ==
    /\ arg.fn = "run"
    /\ out = NoOut
    /\ out' = [fn |-> "run", valid |-> validate(Config(arg.env))]
    /\ IF validate(Config(arg.env))
       THEN /\ polling' = TRUE
            /\ \E t \in Unborn :
                  /\ \A u \in Unborn : t <= u
                  /\ SpawnMonitor(t)
       ELSE UNCHANGED <<polling, is_running, monitor_thread, tpc, multi,
                        quiet>>
    /\ UNCHANGED <<arg, hdlVars>>
    /\ UNCHANGED <<processed_orders, orders, posting_number, new_orders,
                   result, hpc, hjoin, renotified, delivered, lateSend, passed>>

RunNext == RunConfigured

RunSpec == RunInit /\ [][RunNext]_vars

\* a setting holds the placeholder it has when the environment leaves it
\* unset
Unconfigured(cls) ==
    \/ cls.BOT_TOKEN = Config([BOT_TOKEN |-> Unset, OZON_API_KEY |-> Unset,
                               OZON_CLIENT_ID |-> Unset]).BOT_TOKEN
    \/ cls.OZON_API_KEY = Config([BOT_TOKEN |-> Unset, OZON_API_KEY |-> Unset,
                                  OZON_CLIENT_ID |-> Unset]).OZON_API_KEY
    \/ cls.OZON_CLIENT_ID = Config([BOT_TOKEN |-> Unset, OZON_API_KEY |-> Unset,
                                    OZON_CLIENT_ID |-> Unset]).OZON_CLIENT_ID

\* C25: with BOT_TOKEN, OZON_API_KEY or OZON_CLIENT_ID at its default
\* placeholder, validate returns False and run starts neither the monitor
\* nor the polling.
C25_PlaceholderStopsRun ==
    (out.fn = "run" /\ Unconfigured(Config(arg.env)))
        => /\ ~out.valid
           /\ ~polling
           /\ ~is_running
           /\ AliveThreads = {}

(***************************************************************************)
(* processed_orders and the orders given to the notifications.             *)
(***************************************************************************)
\* processed_orders grows, at line 442 of check_new_orders only, and by a
\* posting number
C28_GrowsByScanOnly ==
    /\ processed_orders \subseteq processed_orders'
    /\ processed_orders' \subseteq Postings
    /\ processed_orders' # processed_orders
          => \E t \in Threads : tpc[t] = "add" /\ tpc'[t] = "scan"

\* no check_new_orders is between its first add and its notification
BetweenPolls == \A t \in Threads : tpc[t] \notin {"scan", "add", "notify"}

\* C28: processed_orders only grows and only check_new_orders changes it
\* (no start, stop or handler does); a posting without posting_number is
\* never added; and get_processed_orders_count is the number of orders
\* given to send_new_orders_notification so far, whenever no poll is under
\* way.
C28_ProcessedCountsNotified ==
    /\ [][C28_GrowsByScanOnly]_vars
    /\ [](BetweenPolls => Cardinality(processed_orders) = passed)

(***************************************************************************)
(* show_all_products_menu: the pages of the list of products.  The list is *)
(* fetched again on every press and is the number of its items.            *)
(***************************************************************************)
MaxItems == 35

items_per_page == 10

\* int(s) for a string of digits
RECURSIVE ParseInt(_)
ParseInt(digits) ==
    IF digits = <<>> THEN 0
    ELSE 10 * ParseInt(SubSeq(digits, 1, Len(digits) - 1))
         + (CHOOSE d \in 0..9 : Digits[d + 1] = digits[Len(digits)])

\* no button
NoButton == <<>>

\* what get_all_products returns: an error result, or a list of n items
ProductLists == {ErrorDict} \cup {Res("json", FALSE, n) : n \in 0..MaxItems}

\* the screen: the page asked for, the slice of the list it shows and the
\* page numbers on its navigation buttons
show_all_products_menu(page, products) ==
    IF HasError(products)
    THEN [fn |-> "products", kind |-> "error", page |-> page, n |-> 0,
          total_pages |-> 0, start_idx |-> 0, end_idx |-> 0,
          prev |-> NoButton, next |-> NoButton]
    ELSE IF products.n = 0
    THEN [fn |-> "products", kind |-> "empty", page |-> page, n |-> 0,
          total_pages |-> 0, start_idx |-> 0, end_idx |-> 0,
          prev |-> NoButton, next |-> NoButton]
    ELSE LET total_pages == (products.n + items_per_page - 1) \div items_per_page
             start_idx == page * items_per_page
             end_idx == IF start_idx + items_per_page < products.n
                        THEN start_idx + items_per_page ELSE products.n
         IN  [fn |-> "products", kind |-> "page", page |-> page,
              n |-> products.n, total_pages |-> total_pages,
              start_idx |-> start_idx, end_idx |-> end_idx,
              prev |-> IF page > 0 THEN Str(page - 1) ELSE NoButton,
              next |-> IF page < total_pages - 1 THEN Str(page + 1)
                       ELSE NoButton]

PageInit == Construct(<<>>) /\ arg = NoArg /\ out = NoOut

\* the button all_products of the main menu: page 0
OpenAllProducts ==
    /\ \E products \in ProductLists :
          out' = show_all_products_menu(0, products)
    /\ arg' = [fn |-> "products", data |-> <<"all", "products">>]
    /\ ProgramIdle

\* a navigation button of the screen: products_page_<number>
PressPage ==
    /\ out.fn = "products"
    /\ \E button \in {out.prev, out.next} \ {NoButton} :
          /\ \E products \in ProductLists :
                out' = show_all_products_menu(ParseInt(button), products)
          /\ arg' = [fn |-> "products", data |-> <<"products", "page">> \o button]
    /\ ProgramIdle

PageNext == OpenAllProducts \/ PressPage

PageSpec == PageInit /\ [][PageNext]_vars

\* C29: the page shown is a page of the list, 0 <= page < total_pages =
\* ceil(n / 10); it lists the items 10 * page .. min(10 * page + 10, n) - 1;
\* the previous button is there only on a page above 0 and the next button
\* only on a page below the last.
C29_PageInRange ==
    (out.fn = "products" /\ out.kind = "page") =>
        /\ out.total_pages * 10 >= out.n
        /\ (out.total_pages - 1) * 10 < out.n
        /\ 0 <= out.page
        /\ out.page < out.total_pages
        /\ out.start_idx = 10 * out.page
        /\ out.end_idx = IF 10 * out.page + 10 < out.n
                         THEN 10 * out.page + 10 ELSE out.n
        /\ out.start_idx < out.end_idx
        /\ out.prev # NoButton => out.page > 0
        /\ out.next # NoButton => out.page < out.total_pages - 1

(***************************************************************************)
(* get_color_emoji and the colour found in the name of a product: the     *)
(* colour extract_color_from_product returns is itself a name in which a  *)
(* colour can be looked for.                                              *)
(***************************************************************************)
\* color_map of get_color_emoji: key, glyph
color_map == <<
    \* krasnyj: red circle
    <<<<1082, 1088, 1072, 1089, 1085, 1099, 1081>>, <<128308>>>>,
    \* red: red circle
    <<<<114, 101, 100>>, <<128308>>>>,
    \* sinij: blue circle
    <<<<1089, 1080, 1085, 1080, 1081>>, <<128309>>>>,
    \* blue: blue circle
    <<<<98, 108, 117, 101>>, <<128309>>>>,
    \* zelenyj: green circle
    <<<<1079, 1077, 1083, 1077, 1085, 1099, 1081>>, <<128994>>>>,
    \* green: green circle
    <<<<103, 114, 101, 101, 110>>, <<128994>>>>,
    \* zheltyj: yellow circle
    <<<<1078, 1077, 1083, 1090, 1099, 1081>>, <<128993>>>>,
    \* yellow: yellow circle
    <<<<121, 101, 108, 108, 111, 119>>, <<128993>>>>,
    \* oranzhevyj: orange circle
    <<<<1086, 1088, 1072, 1085, 1078, 1077, 1074, 1099, 1081>>, <<128992>>>>,
    \* orange: orange circle
    <<<<111, 114, 97, 110, 103, 101>>, <<128992>>>>,
    \* fioletovyj: purple circle
    <<<<1092, 1080, 1086, 1083, 1077, 1090, 1086, 1074, 1099, 1081>>, <<128995>>>>,
    \* purple: purple circle
    <<<<112, 117, 114, 112, 108, 101>>, <<128995>>>>,
    \* rozovyj: pink heart
    <<<<1088, 1086, 1079, 1086, 1074, 1099, 1081>>, <<129655>>>>,
    \* pink: pink heart
    <<<<112, 105, 110, 107>>, <<129655>>>>,
    \* fuksiya: purple circle
    <<<<1092, 1091, 1082, 1089, 1080, 1103>>, <<128995>>>>,
    \* fuchsia: purple circle
    <<<<102, 117, 99, 104, 115, 105, 97>>, <<128995>>>>,
    \* korichnevyj: brown circle
    <<<<1082, 1086, 1088, 1080, 1095, 1085, 1077, 1074, 1099, 1081>>, <<128996>>>>,
    \* brown: brown circle
    <<<<98, 114, 111, 119, 110>>, <<128996>>>>,
    \* chernyj: black circle
    <<<<1095, 1077, 1088, 1085, 1099, 1081>>, <<9899>>>>,
    \* black: black circle
    <<<<98, 108, 97, 99, 107>>, <<9899>>>>,
    \* belyj: white circle
    <<<<1073, 1077, 1083, 1099, 1081>>, <<9898>>>>,
    \* white: white circle
    <<<<119, 104, 105, 116, 101>>, <<9898>>>>,
    \* seryj: radio button
    <<<<1089, 1077, 1088, 1099, 1081>>, <<128280>>>>,
    \* gray: radio button
    <<<<103, 114, 97, 121>>, <<128280>>>>,
    \* grey: radio button
    <<<<103, 114, 101, 121>>, <<128280>>>>,
    \* zolotoj: yellow square
    <<<<1079, 1086, 1083, 1086, 1090, 1086, 1081>>, <<129000>>>>,
    \* gold: yellow square
    <<<<103, 111, 108, 100>>, <<129000>>>>,
    \* serebryanyj: white circle
    <<<<1089, 1077, 1088, 1077, 1073, 1088, 1103, 1085, 1099, 1081>>, <<9898>>>>,
    \* silver: white circle
    <<<<115, 105, 108, 118, 101, 114>>, <<9898>>>>,
    \* raduzhnyj: rainbow
    <<<<1088, 1072, 1076, 1091, 1078, 1085, 1099, 1081>>, <<127752>>>>,
    \* raduzhnaya: rainbow
    <<<<1088, 1072, 1076, 1091, 1078, 1085, 1072, 1103>>, <<127752>>>>,
    \* raduzhnoe: rainbow
    <<<<1088, 1072, 1076, 1091, 1078, 1085, 1086, 1077>>, <<127752>>>>,
    \* rainbow: rainbow
    <<<<114, 97, 105, 110, 98, 111, 119>>, <<127752>>>>,
    \* raznocvetnyj: rainbow
    <<<<1088, 1072, 1079, 1085, 1086, 1094, 1074, 1077, 1090, 1085, 1099, 1081>>, <<127752>>>>,
    \* raznocvetnaya: rainbow
    <<<<1088, 1072, 1079, 1085, 1086, 1094, 1074, 1077, 1090, 1085, 1072, 1103>>, <<127752>>>>,
    \* raznocvetnoe: rainbow
    <<<<1088, 1072, 1079, 1085, 1086, 1094, 1074, 1077, 1090, 1085, 1086, 1077>>, <<127752>>>>,
    \* multicolor: rainbow
    <<<<109, 117, 108, 116, 105, 99, 111, 108, 111, 114>>, <<127752>>>>
>>

\* color_map.get(color, '')
get_color_emoji(color) ==
    LET keys == {i \in 1..Len(color_map) : color_map[i][1] = color}
    IN  IF keys = {} THEN <<>>
        ELSE color_map[CHOOSE i \in keys : TRUE][2]

\* names of products: the patterns and the colours of color_patterns
ColourNames == {color_patterns[i][1] : i \in 1..Len(color_patterns)} \cup Colours

ColourArgs == {[fn |-> "colour", name |-> name] : name \in ColourNames}

ColourInit == Construct(<<>>) /\ arg \in ColourArgs /\ out = NoOut

\* the colour of a product is taken from its name
DetectColour ==
    /\ arg.fn = "colour"
    /\ out = NoOut
    /\ out' = [fn |-> "colour", again |-> FALSE,
               color |-> extract_color_from_product(<<>>, arg.name),
               color_again |-> <<>>, emoji |-> <<>>]
    /\ UNCHANGED arg
    /\ ProgramIdle

\* the colour found is looked up in color_map and is itself given to
\* extract_color_from_product as a name
DetectAgain ==
    /\ out.fn = "colour"
    /\ ~out.again
    /\ out' = [out EXCEPT !.again = TRUE,
                          !.color_again = extract_color_from_product(<<>>, out.color),
                          !.emoji = get_color_emoji(out.color)]
    /\ UNCHANGED arg
    /\ ProgramIdle

ColourNext == DetectColour \/ DetectAgain

ColourSpec == ColourInit /\ [][ColourNext]_vars

\* C30: a colour that extract_color_from_product finds in a name is found
\* again in the colour itself (no colour of the lexicon is turned into
\* another one), and get_color_emoji has a glyph for it.
C30_ColourStable ==
    (out.fn = "colour" /\ out.again /\ out.color # NA) =>
        /\ out.color_again = out.color
        /\ out.emoji # <<>>

====
